---- MODULE Spec2Model ----
(***************************************************************************)
(* Model of the logger package (internal/logger): the global registry      *)
(* (InitGlobalLogger / GetLogger / ResetGlobalLogger and the global        *)
(* passthrough functions), the per-instance methods (Debug / Info / Warn / *)
(* Error / SetLevel / Close), the file sink with its daily rotation, the   *)
(* retention cleanup and the background goroutine started by               *)
(* scheduleDailyTasks.                                                     *)
(*                                                                         *)
(* Time is counted in local calendar days.  A file is an inode (mtime,     *)
(* content); the directory maps names to inodes; a name is the sequence of *)
(* the tokens it is made of so that HasPrefix / HasSuffix are computed.    *)
(***************************************************************************)
EXTENDS Integers, Sequences, FiniteSets, TLC

(***************************************************************************)
(* Bounds of the model                                                     *)
(***************************************************************************)
NProcs == 2          \* caller goroutines
MaxLoggers == 2      \* Logger objects constructed in one run
MaxOps == 2          \* operations invoked by the callers in one run
MaxDay == 1          \* midnights that pass in one run
MaxFaults == 1       \* operating-system failures injected in one run

(***************************************************************************)
(* Program constants                                                       *)
(***************************************************************************)
DebugLevel == 0
InfoLevel == 1
WarnLevel == 2
ErrorLevel == 3
DefaultRetentionDays == 7

Levels == {DebugLevel, InfoLevel, WarnLevel, ErrorLevel}

\* the level string each severity method passes to l.log
LevelTag(s) ==
    CASE s = DebugLevel -> "DEBUG"
      [] s = InfoLevel -> "INFO"
      [] s = WarnLevel -> "WARN"
      [] OTHER -> "ERROR"

\* LoggerConfig
Config(lv, ot, ld, fp, rd) ==
    [Level |-> lv, OutputType |-> ot, LogDir |-> ld, FilePrefix |-> fp,
     RetentionDays |-> rd]

\* the configurations the callers pass in
Configs ==
    { Config(DebugLevel, "", "", <<>>, 0),
      Config(InfoLevel, "file", "d", <<"a">>, 1),
      Config(WarnLevel, "console", "", <<>>, -1),
      Config(DebugLevel, "invalid", "", <<>>, 0),
      Config(DebugLevel, "file", "", <<"a">>, 1),
      Config(DebugLevel, "file", "d", <<>>, 1) }

Procs == 1..NProcs
Insts == 1..MaxLoggers
TaskOf(i) == NProcs + i
Tasks == {TaskOf(i) : i \in Insts}
Actors == Procs \cup Tasks

VARIABLES
    today,         \* the local calendar day of time.Now()
    dir,           \* the log directory: name -> [ino, isDir]
    inodes,        \* the files: ino -> [mtime, content]
    stdout,        \* what has been written to os.Stdout
    faultsLeft,    \* operating-system failures that may still be injected
    globalLogger,  \* 0 (nil) or the instance the registry points to
    globalMu,      \* 0 (free) or the actor holding the registry lock
    nLoggers,      \* Logger objects constructed so far
    L,             \* the Logger objects
    A,             \* the goroutines: callers and background tasks
    opsLeft,       \* operations the callers may still invoke
    daysLeft,      \* midnights that may still pass
    panicked       \* the process died of a panic

vars == <<today, dir, inodes, stdout, faultsLeft, globalLogger, globalMu,
          nLoggers, L, A, opsLeft, daysLeft, panicked>>

(***************************************************************************)
(* File names                                                              *)
(***************************************************************************)
\* time.Now().Format("2006-01-02"): one token per calendar day
DateTab == <<"2023-07-04", "2023-07-05", "2023-07-06", "2023-07-07",
             "2023-07-08", "2023-07-09">>
DateStr(d) == DateTab[d + 1]

\* mutant: the date of the process start is used for every file name
FileNameOfStart(prefix, d) == prefix \o <<"_", DateStr(0), ".log">>

\* fmt.Sprintf("%s_%s.log", l.filePrefix, dateStr)
FileName(prefix, d) == prefix \o <<"_", DateStr(d), ".log">>

\* strings.HasPrefix / strings.HasSuffix on token sequences
HasPrefix(name, pre) ==
    /\ Len(name) >= Len(pre)
    /\ SubSeq(name, 1, Len(pre)) = pre

HasSuffix(name, suf) ==
    /\ Len(name) >= Len(suf)
    /\ SubSeq(name, Len(name) - Len(suf) + 1, Len(name)) = suf

\* the candidates of cleanupOldLogs: prefix+"_" ... ".log"
Matches(name, prefix) ==
    /\ HasPrefix(name, prefix \o <<"_">>)
    /\ HasSuffix(name, <<".log">>)

(***************************************************************************)
(* State after process start: no Logger exists; the log directory holds    *)
(* files left by earlier runs and by other programs                        *)
(***************************************************************************)
NoFile == 0

\* a *log.Logger: nil, bound to os.Stdout, or bound to an *os.File
NilLogger == [kind |-> "nil", ino |-> 0, open |-> FALSE]
StdoutLogger == [kind |-> "stdout", ino |-> 0, open |-> TRUE]
FileLogger(ino) == [kind |-> "file", ino |-> ino, open |-> TRUE]

\* a Logger object that has not been constructed yet
NoInstance ==
    [level |-> DebugLevel, outputType |-> "", logDir |-> "",
     filePrefix |-> <<>>, retentionDays |-> 0, logger |-> NilLogger,
     currentFile |-> NoFile, nOpen |-> 0, cancelled |-> FALSE, mu |-> 0,
     openFailed |-> FALSE, issued |-> FALSE]

\* a goroutine: its position and its locals.  Of a severity call it
\* keeps the level it read (lvl0) and whether the instance had been closed
\* when the call started (after).  Of a background task it keeps the
\* state of its ticker: a tick waiting in the channel (tick), whether the
\* period is still the duration until the first midnight (first), and the
\* day the ticker was made or the task last received a tick (woke).  Of a
\* ThreadSafeWriteFile call it keeps the name of the temporary file (tmp)
\* and the file it has open (fd).  Of a cleanup in its deletion loop it
\* keeps the list of the names still to delete (old) and the modification
\* time of the file it deleted last (last).
NoTime == -100

NoActor(pc) ==
    [pc |-> pc, op |-> "none", cur |-> 0, sev |-> 0, lvl0 |-> 0,
     ret |-> 0, err |-> FALSE, after |-> FALSE, old |-> <<>>,
     tick |-> FALSE, first |-> FALSE, woke |-> 0, tmp |-> <<>>, fd |-> 0,
     last |-> NoTime]

\* one line of output: the level tag, the goroutine that wrote it, and
\* the path a deletion entry names
Entry(tag, who, path) == [tag |-> tag, who |-> who, path |-> path]

InitDir ==
    (<<"a", "_", "2023-07-01", ".log">> :> [ino |-> 1, isDir |-> FALSE]) @@
    (<<"a", "_", "2023-07-02", ".log">> :> [ino |-> 2, isDir |-> FALSE]) @@
    (<<"a", "_", "2023-07-03", ".log">> :> [ino |-> 3, isDir |-> FALSE]) @@
    (<<"a", "_", "2023-07-04", ".log">> :> [ino |-> 4, isDir |-> FALSE]) @@
    (<<"otherfile", ".log">> :> [ino |-> 5, isDir |-> FALSE]) @@
    (<<"a", "_", "archive", ".log">> :> [ino |-> 6, isDir |-> TRUE])

InitInodes ==
    << [mtime |-> -3, content |-> <<>>],
       [mtime |-> -2, content |-> <<>>],
       [mtime |-> -1, content |-> <<>>],
       [mtime |-> 0, content |-> <<Entry("INFO", 0, <<>>)>>],
       [mtime |-> -3, content |-> <<>>],
       [mtime |-> -3, content |-> <<>>] >>

\* the state at process start, with the budgets of one run
InitWith(nOps, nDays, nFaults) ==
    /\ today = 0
    /\ dir = InitDir
    /\ inodes = InitInodes
    /\ stdout = <<>>
    /\ faultsLeft = nFaults
    /\ globalLogger = 0
    /\ globalMu = 0
    /\ nLoggers = 0
    /\ L = [i \in Insts |-> NoInstance]
    /\ A = [a \in Actors |-> IF a \in Procs THEN NoActor("idle")
                                            ELSE NoActor("none")]
    /\ opsLeft = nOps
    /\ daysLeft = nDays
    /\ panicked = FALSE

Init == InitWith(MaxOps, MaxDay, MaxFaults)

(***************************************************************************)
(* Helpers shared by the operations                                        *)
(***************************************************************************)
\* mutant: the methods do not wait for the instance lock
MuNotTaken(i) == TRUE

\* sync.Mutex.Lock on l.mu returns only when the lock is free
MuFree(i) == L[i].mu = 0

\* mutant: the level check also drops the messages at the threshold
FilteredAtThreshold(lv, s) == lv >= s

\* the level check at the head of Debug / Info / Warn / Error:
\* if l.level > XxxLevel { return }
Filtered(lv, s) == lv > s

\* l.log: if l.logger == nil return; l.logger.Output(4, msg).  A write to
\* a closed *os.File fails and the error of Output is dropped.
LogInodes(lg, e) ==
    IF lg.kind = "file" /\ lg.open
    THEN [inodes EXCEPT ![lg.ino] =
             [mtime |-> today, content |-> Append(@.content, e)]]
    ELSE inodes

LogStdout(lg, e) ==
    IF lg.kind = "stdout" THEN Append(stdout, e) ELSE stdout

\* mutant: the file is closed without the nil check
CloseCurrentUnchecked(l) ==
    [l EXCEPT !.currentFile = NoFile, !.logger.open = FALSE, !.nOpen = @ - 1]

\* if l.currentFile != nil { l.currentFile.Close(); l.currentFile = nil }
CloseCurrent(l) ==
    IF l.currentFile # NoFile
    THEN [l EXCEPT !.currentFile = NoFile, !.logger.open = FALSE,
                   !.nOpen = @ - 1]
    ELSE l

\* os.OpenFile(filePath, O_APPEND|O_CREATE|O_WRONLY): the inode the name
\* denotes afterwards, and the directory and inode table afterwards
OpenIno(name) ==
    IF name \in DOMAIN dir THEN dir[name].ino ELSE Len(inodes) + 1

OpenDir(name) ==
    IF name \in DOMAIN dir THEN dir
    ELSE dir @@ (name :> [ino |-> Len(inodes) + 1, isDir |-> FALSE])

\* mutant: os.OpenFile with O_TRUNC in place of O_APPEND
OpenInodesTruncating(name) ==
    IF name \in DOMAIN dir
    THEN [inodes EXCEPT ![dir[name].ino].content = <<>>]
    ELSE Append(inodes, [mtime |-> today, content |-> <<>>])

OpenInodes(name) ==
    IF name \in DOMAIN dir THEN inodes
    ELSE Append(inodes, [mtime |-> today, content |-> <<>>])

\* l.currentFile = file; l.logger = log.New(file, ...)
\* mutant: the reopened file is recorded but the log writer stays bound to
\* the handle that was closed
SetFileKeepsLogger(l, ino) ==
    [l EXCEPT !.currentFile = ino, !.nOpen = @ + 1, !.openFailed = FALSE]

SetFile(l, ino) ==
    [l EXCEPT !.currentFile = ino, !.logger = FileLogger(ino),
              !.nOpen = @ + 1, !.openFailed = FALSE]

\* an operating-system call may fail while the fault budget lasts
CanFail == faultsLeft > 0

\* a caller may invoke another operation.  The callers are interchangeable
\* goroutines started one after the other: each makes its first call after
\* the callers before it have made theirs.
CanInvoke(p) ==
    /\ A[p].pc = "idle"
    /\ opsLeft > 0
    /\ \A q \in 1..(p - 1) : A[q].op # "none"

\* the caller's record when an operation returns: its result stays, the
\* locals of the call are gone
Returned(p, op, ret, err, after) ==
    [A[p] EXCEPT !.pc = "idle", !.op = op, !.cur = 0, !.sev = 0,
                 !.lvl0 = 0, !.ret = ret, !.err = err, !.after = after]

\* the caller's record when an operation goes on to its next step
Proceed(p, pc, op, cur, sev, lvl0, after) ==
    [A[p] EXCEPT !.pc = pc, !.op = op, !.cur = cur, !.sev = sev,
                 !.lvl0 = lvl0, !.ret = 0, !.err = FALSE, !.after = after]

(***************************************************************************)
(* InitGlobalLogger.  The registry lock is held from the first line to the *)
(* return; the steps are the places where another goroutine can act on the *)
(* new instance (the background task started before the first cleanup).    *)
(***************************************************************************)
\* config.OutputType after "if config.OutputType == "" { ... = "console" }"
OutputTypeOf(cfg) ==
    IF cfg.OutputType = "" THEN "console" ELSE cfg.OutputType

\* mutant: only a retention of exactly 0 is replaced by the default
RetentionZeroOnly(cfg) ==
    IF cfg.RetentionDays = 0 THEN DefaultRetentionDays
    ELSE cfg.RetentionDays

\* config.RetentionDays after "if config.RetentionDays <= 0 { ... = 7 }"
RetentionOf(cfg) ==
    IF cfg.RetentionDays <= 0 THEN DefaultRetentionDays
    ELSE cfg.RetentionDays

\* mutant: the log directory is required whatever the output type
InvalidWithoutDir(cfg) ==
    \/ OutputTypeOf(cfg) \notin {"console", "file"}
    \/ cfg.LogDir = ""
    \/ OutputTypeOf(cfg) = "file" /\ cfg.FilePrefix = <<>>

\* the validation of the configuration fails
Invalid(cfg) ==
    \/ OutputTypeOf(cfg) \notin {"console", "file"}
    \/ /\ OutputTypeOf(cfg) = "file"
       /\ (cfg.LogDir = "" \/ cfg.FilePrefix = <<>>)

\* mutant: the level of the configuration is not taken over
NewInstanceWithoutLevel(cfg) ==
    [NoInstance EXCEPT !.outputType = OutputTypeOf(cfg),
                       !.logDir = cfg.LogDir,
                       !.filePrefix = cfg.FilePrefix,
                       !.retentionDays = RetentionOf(cfg)]

\* logger := &Logger{...}
NewInstance(cfg) ==
    [NoInstance EXCEPT !.level = cfg.Level,
                       !.outputType = OutputTypeOf(cfg),
                       !.logDir = cfg.LogDir,
                       !.filePrefix = cfg.FilePrefix,
                       !.retentionDays = RetentionOf(cfg)]

\* mutant: the configuration is validated before the singleton is looked at
InitRepeatValidated(p, cfg) ==
    /\ globalLogger # 0
    /\ A' = [A EXCEPT ![p] =
                IF Invalid(cfg) THEN Returned(p, "init", 0, TRUE, FALSE)
                ELSE Returned(p, "init", globalLogger, FALSE, FALSE)]
    /\ UNCHANGED <<today, daysLeft, dir, inodes, stdout, faultsLeft,
                   globalLogger, globalMu, nLoggers, L, panicked>>

\* if globalLogger != nil { return globalLogger, nil }
InitRepeat(p, cfg) ==
    /\ globalLogger # 0
    /\ A' = [A EXCEPT ![p] =
                Returned(p, "init", globalLogger, FALSE, FALSE)]
    /\ UNCHANGED <<today, daysLeft, dir, inodes, stdout, faultsLeft,
                   globalLogger, globalMu, nLoggers, L, panicked>>

\* the validation errors, and the failure of os.MkdirAll
InitReject(p, cfg) ==
    /\ globalLogger = 0
    /\ \/ /\ Invalid(cfg)
          /\ faultsLeft' = faultsLeft
       \/ /\ ~Invalid(cfg)
          /\ OutputTypeOf(cfg) = "file"
          /\ CanFail
          /\ faultsLeft' = faultsLeft - 1
    /\ A' = [A EXCEPT ![p] = Returned(p, "init", 0, TRUE, FALSE)]
    /\ UNCHANGED <<today, daysLeft, dir, inodes, stdout, globalLogger,
                   globalMu, nLoggers, L, panicked>>

\* console: logger.logger = log.New(os.Stdout, ...); globalLogger = logger
InitConsole(p, cfg) ==
    /\ globalLogger = 0
    /\ ~Invalid(cfg)
    /\ OutputTypeOf(cfg) = "console"
    /\ nLoggers < MaxLoggers
    /\ LET i == nLoggers + 1 IN
       /\ nLoggers' = i
       /\ L' = [L EXCEPT ![i] =
                   [NewInstance(cfg) EXCEPT !.logger = StdoutLogger,
                                            !.issued = TRUE]]
       /\ globalLogger' = i
       /\ A' = [A EXCEPT ![p] = Returned(p, "init", i, FALSE, FALSE)]
    /\ UNCHANGED <<today, daysLeft, dir, inodes, stdout, faultsLeft,
                   globalMu, panicked>>

\* mutant: the registry lock is not held while the new instance is set up
InitFileUnlocked(p, cfg) ==
    /\ globalLogger = 0
    /\ ~Invalid(cfg)
    /\ OutputTypeOf(cfg) = "file"
    /\ nLoggers < MaxLoggers
    /\ LET i == nLoggers + 1
           name == FileName(cfg.FilePrefix, today)
       IN
       /\ name \in DOMAIN dir => ~dir[name].isDir
       /\ nLoggers' = i
       /\ L' = [L EXCEPT ![i] = SetFile(NewInstance(cfg), OpenIno(name))]
       /\ dir' = OpenDir(name)
       /\ inodes' = OpenInodes(name)
       /\ globalMu' = globalMu
       /\ A' = [A EXCEPT ![p] = Proceed(p, "cl_list", "init", i, 0, 0, FALSE),
                         ![TaskOf(i)] = [@ EXCEPT !.pc = "wait", !.cur = i,
                                                  !.first = TRUE,
                                                  !.woke = today]]
    /\ UNCHANGED <<today, daysLeft, stdout, faultsLeft, globalLogger,
                   panicked>>

\* file: setupFileLogger succeeds, scheduleDailyTasks starts the goroutine,
\* and the call goes on to cleanupOldLogs with the registry lock held
InitFile(p, cfg) ==
    /\ globalLogger = 0
    /\ ~Invalid(cfg)
    /\ OutputTypeOf(cfg) = "file"
    /\ nLoggers < MaxLoggers
    /\ LET i == nLoggers + 1
           name == FileName(cfg.FilePrefix, today)
       IN
       /\ name \in DOMAIN dir => ~dir[name].isDir
       /\ nLoggers' = i
       /\ L' = [L EXCEPT ![i] = SetFile(NewInstance(cfg), OpenIno(name))]
       /\ dir' = OpenDir(name)
       /\ inodes' = OpenInodes(name)
       /\ globalMu' = p
       /\ A' = [A EXCEPT ![p] = Proceed(p, "cl_list", "init", i, 0, 0, FALSE),
                         ![TaskOf(i)] = [@ EXCEPT !.pc = "wait", !.cur = i,
                                                  !.first = TRUE,
                                                  !.woke = today]]
    /\ UNCHANGED <<today, daysLeft, stdout, faultsLeft, globalLogger,
                   panicked>>

\* file: os.OpenFile fails in setupFileLogger; cancel(); return nil, err
InitOpenFail(p, cfg) ==
    /\ globalLogger = 0
    /\ ~Invalid(cfg)
    /\ OutputTypeOf(cfg) = "file"
    /\ nLoggers < MaxLoggers
    /\ CanFail
    /\ faultsLeft' = faultsLeft - 1
    /\ LET i == nLoggers + 1 IN
       /\ nLoggers' = i
       /\ L' = [L EXCEPT ![i] =
                   [NewInstance(cfg) EXCEPT !.cancelled = TRUE,
                                            !.openFailed = TRUE]]
    /\ A' = [A EXCEPT ![p] = Returned(p, "init", 0, TRUE, FALSE)]
    /\ UNCHANGED <<today, daysLeft, dir, inodes, stdout, globalLogger,
                   globalMu, panicked>>

InitGlobalLogger(p, cfg) ==
    /\ ~panicked
    /\ CanInvoke(p)
    /\ globalMu = 0
    /\ opsLeft' = opsLeft - 1
    /\ \/ InitRepeat(p, cfg)
       \/ InitReject(p, cfg)
       \/ InitConsole(p, cfg)
       \/ InitFile(p, cfg)
       \/ InitOpenFail(p, cfg)

\* the cleanup of InitGlobalLogger returned nil:
\* globalLogger = logger; return logger, nil
InitPublish(p) ==
    /\ globalLogger' = A[p].cur
    /\ globalMu' = 0
    /\ A' = [A EXCEPT ![p] =
                [Returned(p, "init", A[p].cur, FALSE, FALSE)
                    EXCEPT !.old = <<>>, !.last = NoTime]]
    /\ L' = [L EXCEPT ![A[p].cur].issued = TRUE]

\* mutant: the instance is published before its first cleanup is known to
\* have succeeded
InitCleanupFailPublished(p) ==
    /\ L' = [L EXCEPT ![A[p].cur].cancelled = TRUE]
    /\ globalMu' = 0
    /\ A' = [A EXCEPT ![p] =
                [Returned(p, "init", 0, TRUE, FALSE)
                    EXCEPT !.old = <<>>, !.last = NoTime]]
    /\ globalLogger' = A[p].cur

\* the cleanup of InitGlobalLogger returned an error:
\* cancel(); return nil, fmt.Errorf(...)
InitCleanupFail(p) ==
    /\ L' = [L EXCEPT ![A[p].cur].cancelled = TRUE]
    /\ globalMu' = 0
    /\ A' = [A EXCEPT ![p] =
                [Returned(p, "init", 0, TRUE, FALSE)
                    EXCEPT !.old = <<>>, !.last = NoTime]]
    /\ globalLogger' = globalLogger

(***************************************************************************)
(* GetLogger and ResetGlobalLogger                                         *)
(***************************************************************************)
GetLogger(p) ==
    /\ ~panicked
    /\ CanInvoke(p)
    /\ globalMu = 0
    /\ opsLeft' = opsLeft - 1
    /\ A' = [A EXCEPT ![p] =
                Returned(p, "get", globalLogger, FALSE, FALSE)]
    /\ UNCHANGED <<today, daysLeft, dir, inodes, stdout, faultsLeft,
                   globalLogger, globalMu, nLoggers, L, panicked>>

\* mutant: Close cancels the context and leaves the file open
CloseBodyKeepsFile(l) == [l EXCEPT !.cancelled = TRUE]

\* Close under l.mu: cancel the context, close and clear the file
CloseBody(l) == CloseCurrent([l EXCEPT !.cancelled = TRUE])

\* globalMu.Lock(); if globalLogger != nil { globalLogger.Close() ...
ResetBegin(p) ==
    /\ ~panicked
    /\ CanInvoke(p)
    /\ globalMu = 0
    /\ opsLeft' = opsLeft - 1
    /\ IF globalLogger = 0
       THEN /\ A' = [A EXCEPT ![p] = Returned(p, "reset", 0, FALSE, FALSE)]
            /\ globalMu' = globalMu
       ELSE /\ A' = [A EXCEPT ![p] =
                        Proceed(p, "reset_close", "reset", globalLogger,
                                0, 0, FALSE)]
            /\ globalMu' = p
    /\ UNCHANGED <<today, daysLeft, dir, inodes, stdout, faultsLeft,
                   globalLogger, nLoggers, L, panicked>>

\* ... globalLogger.Close(); globalLogger = nil }
ResetClose(p) ==
    /\ ~panicked
    /\ A[p].pc = "reset_close"
    /\ MuFree(A[p].cur)
    /\ L' = [L EXCEPT ![A[p].cur] = CloseBody(@)]
    /\ globalLogger' = 0
    /\ globalMu' = 0
    /\ A' = [A EXCEPT ![p] = Returned(p, "reset", 0, FALSE, FALSE)]
    /\ UNCHANGED <<today, daysLeft, dir, inodes, stdout, faultsLeft,
                   nLoggers, opsLeft, panicked>>

(***************************************************************************)
(* Per-instance methods.  A caller can hold a reference to any instance    *)
(* that InitGlobalLogger has returned (callers share what they are given). *)
(***************************************************************************)
Issued == {i \in Insts : L[i].issued}

\* mutant: l.log drops the entry when the threshold is above Info
LogEffectFiltered(i, a, tag, path) ==
    /\ inodes' = IF Filtered(L[i].level, InfoLevel) THEN inodes
                  ELSE LogInodes(L[i].logger, Entry(tag, a, path))
    /\ stdout' = IF Filtered(L[i].level, InfoLevel) THEN stdout
                  ELSE LogStdout(L[i].logger, Entry(tag, a, path))

\* the effect of l.log(tag, ...) by actor a on the files and on stdout
LogEffect(i, a, tag, path) ==
    /\ inodes' = LogInodes(L[i].logger, Entry(tag, a, path))
    /\ stdout' = LogStdout(L[i].logger, Entry(tag, a, path))

\* Debug / Info / Warn / Error, up to l.mu.Lock(): the level is read
\* without the lock
SevBegin(p, i, s) ==
    /\ ~panicked
    /\ CanInvoke(p)
    /\ opsLeft' = opsLeft - 1
    /\ LET lv == L[i].level IN
       A' = [A EXCEPT ![p] =
                IF Filtered(lv, s)
                THEN Returned(p, "sev", 0, FALSE, L[i].cancelled)
                ELSE Proceed(p, "write", "sev", i, s, lv, L[i].cancelled)]
    /\ UNCHANGED <<today, daysLeft, dir, inodes, stdout, faultsLeft,
                   globalLogger, globalMu, nLoggers, L, panicked>>

\* mutant: a write that finds the file closed opens today's file again
SevWriteReopens(p) ==
    /\ ~panicked
    /\ A[p].pc = "write"
    /\ MuFree(A[p].cur)
    /\ LET i == A[p].cur
           name == FileName(L[i].filePrefix, today)
       IN
       IF L[i].outputType = "file" /\ L[i].currentFile = NoFile
       THEN /\ L' = [L EXCEPT ![i] = SetFile(@, OpenIno(name))]
            /\ dir' = OpenDir(name)
            /\ inodes' = OpenInodes(name)
            /\ stdout' = stdout
       ELSE /\ LogEffect(i, p, LevelTag(A[p].sev), <<>>)
            /\ UNCHANGED <<dir, L>>
    /\ A' = [A EXCEPT ![p] =
                Returned(p, "sev", 0, FALSE, A[p].after)]
    /\ UNCHANGED <<today, daysLeft, faultsLeft, globalLogger, globalMu,
                   nLoggers, opsLeft, panicked>>

\* mutant: a write through a cleared handle is a nil dereference
SevWritePanicsOnNil(p) ==
    /\ ~panicked
    /\ A[p].pc = "write"
    /\ MuFree(A[p].cur)
    /\ LogEffect(A[p].cur, p, LevelTag(A[p].sev), <<>>)
    /\ panicked' = (/\ L[A[p].cur].outputType = "file"
                    /\ L[A[p].cur].currentFile = NoFile)
    /\ A' = [A EXCEPT ![p] =
                Returned(p, "sev", 0, FALSE, A[p].after)]
    /\ UNCHANGED <<today, daysLeft, dir, faultsLeft, globalLogger, globalMu,
                   nLoggers, L, opsLeft>>

\* l.mu.Lock(); defer l.mu.Unlock(); l.log(tag, format, v...)
SevWrite(p) ==
    /\ ~panicked
    /\ A[p].pc = "write"
    /\ MuFree(A[p].cur)
    /\ LogEffect(A[p].cur, p, LevelTag(A[p].sev), <<>>)
    /\ A' = [A EXCEPT ![p] =
                Returned(p, "sev", 0, FALSE, A[p].after)]
    /\ UNCHANGED <<today, daysLeft, dir, faultsLeft, globalLogger, globalMu,
                   nLoggers, L, opsLeft, panicked>>

\* mutant: SetLevel only ever raises the threshold
SetLevelRaiseOnly(l, t) == [l EXCEPT !.level = IF t > @ THEN t ELSE @]

\* l.mu.Lock(); l.level = level; l.mu.Unlock()
SetLevelBody(l, t) == [l EXCEPT !.level = t]

SetLevel(p, i, t) ==
    /\ ~panicked
    /\ CanInvoke(p)
    /\ MuFree(i)
    /\ opsLeft' = opsLeft - 1
    /\ L' = [L EXCEPT ![i] = SetLevelBody(@, t)]
    /\ A' = [A EXCEPT ![p] = Returned(p, "set", 0, FALSE, FALSE)]
    /\ UNCHANGED <<today, daysLeft, dir, inodes, stdout, faultsLeft,
                   globalLogger, globalMu, nLoggers, panicked>>

\* mutant: Close also takes the instance out of the registry
CloseUnregisters(p, i) ==
    /\ ~panicked
    /\ CanInvoke(p)
    /\ MuFree(i)
    /\ globalMu = 0
    /\ opsLeft' = opsLeft - 1
    /\ L' = [L EXCEPT ![i] = CloseBody(@)]
    /\ globalLogger' = IF globalLogger = i THEN 0 ELSE globalLogger
    /\ A' = [A EXCEPT ![p] = Returned(p, "close", 0, FALSE, FALSE)]
    /\ UNCHANGED <<today, daysLeft, dir, inodes, stdout, faultsLeft,
                   globalMu, nLoggers, panicked>>

\* Close: l.mu.Lock(); cancel; close and clear the file
Close(p, i) ==
    /\ ~panicked
    /\ CanInvoke(p)
    /\ MuFree(i)
    /\ opsLeft' = opsLeft - 1
    /\ L' = [L EXCEPT ![i] = CloseBody(@)]
    /\ A' = [A EXCEPT ![p] = Returned(p, "close", 0, FALSE, FALSE)]
    /\ UNCHANGED <<today, daysLeft, dir, inodes, stdout, faultsLeft,
                   globalLogger, globalMu, nLoggers, panicked>>

(***************************************************************************)
(* Global passthrough functions: the registry lock is held around the call *)
(* of the instance method                                                  *)
(***************************************************************************)
\* mutant: a global severity function falls back to standard output when
\* there is no singleton
GSevBeginFallback(p, s) ==
    /\ ~panicked
    /\ CanInvoke(p)
    /\ globalMu = 0
    /\ opsLeft' = opsLeft - 1
    /\ LET i == globalLogger
           lv == IF i = 0 THEN 0 ELSE L[i].level
           after == i # 0 /\ L[i].cancelled
       IN
       IF i = 0 \/ Filtered(lv, s)
       THEN /\ A' = [A EXCEPT ![p] = Returned(p, "gsev", 0, FALSE, after)]
            /\ globalMu' = globalMu
            /\ stdout' = IF i = 0
                         THEN Append(stdout, Entry(LevelTag(s), p, <<>>))
                         ELSE stdout
       ELSE /\ A' = [A EXCEPT ![p] =
                        Proceed(p, "gwrite", "gsev", i, s, lv, after)]
            /\ globalMu' = p
            /\ stdout' = stdout
    /\ UNCHANGED <<today, daysLeft, dir, inodes, faultsLeft,
                   globalLogger, nLoggers, L, panicked>>

\* the global Debug / Info / Warn / Error, up to the call of the
\* singleton's method: nothing is done when globalLogger is nil
GSevBegin(p, s) ==
    /\ ~panicked
    /\ CanInvoke(p)
    /\ globalMu = 0
    /\ opsLeft' = opsLeft - 1
    /\ LET i == globalLogger
           lv == IF i = 0 THEN 0 ELSE L[i].level
           after == i # 0 /\ L[i].cancelled
       IN
       IF i = 0 \/ Filtered(lv, s)
       THEN /\ A' = [A EXCEPT ![p] = Returned(p, "gsev", 0, FALSE, after)]
            /\ globalMu' = globalMu
       ELSE /\ A' = [A EXCEPT ![p] =
                        Proceed(p, "gwrite", "gsev", i, s, lv, after)]
            /\ globalMu' = p
    /\ UNCHANGED <<today, daysLeft, dir, inodes, stdout, faultsLeft,
                   globalLogger, nLoggers, L, panicked>>

GSevWrite(p) ==
    /\ ~panicked
    /\ A[p].pc = "gwrite"
    /\ MuFree(A[p].cur)
    /\ LogEffect(A[p].cur, p, LevelTag(A[p].sev), <<>>)
    /\ globalMu' = 0
    /\ A' = [A EXCEPT ![p] =
                Returned(p, "gsev", 0, FALSE, A[p].after)]
    /\ UNCHANGED <<today, daysLeft, dir, faultsLeft, globalLogger, nLoggers,
                   L, opsLeft, panicked>>

GSetBegin(p, t) ==
    /\ ~panicked
    /\ CanInvoke(p)
    /\ globalMu = 0
    /\ opsLeft' = opsLeft - 1
    /\ IF globalLogger = 0
       THEN /\ A' = [A EXCEPT ![p] = Returned(p, "gset", 0, FALSE, FALSE)]
            /\ globalMu' = globalMu
       ELSE /\ A' = [A EXCEPT ![p] =
                        Proceed(p, "gset", "gset", globalLogger, t, 0, FALSE)]
            /\ globalMu' = p
    /\ UNCHANGED <<today, daysLeft, dir, inodes, stdout, faultsLeft,
                   globalLogger, nLoggers, L, panicked>>

GSetLevel(p) ==
    /\ ~panicked
    /\ A[p].pc = "gset"
    /\ MuFree(A[p].cur)
    /\ L' = [L EXCEPT ![A[p].cur] = SetLevelBody(@, A[p].sev)]
    /\ globalMu' = 0
    /\ A' = [A EXCEPT ![p] =
                Returned(p, "gset", 0, FALSE, FALSE)]
    /\ UNCHANGED <<today, daysLeft, dir, inodes, stdout, faultsLeft,
                   globalLogger, nLoggers, opsLeft, panicked>>

(***************************************************************************)
(* cleanupOldLogs, run by InitGlobalLogger and by the background task.     *)
(* It takes no lock.                                                       *)
(***************************************************************************)
Range(f) == {f[k] : k \in DOMAIN f}

\* the names of a set in one fixed order
SeqOf(S) ==
    CHOOSE f \in [1..Cardinality(S) -> S] : Range(f) = S

\* cutoffTime: local midnight of today minus retentionDays
Cutoff(l) == today - l.retentionDays

\* mutant: a file dated at the cutoff is taken as old
ExpiredAtCutoff(mtime, cutoff) == mtime <= cutoff

\* fileInfo.ModTime().Before(cutoffTime)
Expired(mtime, cutoff) == mtime < cutoff

\* mutant: directories are candidates too
CandidatesWithDirs(l) == {n \in DOMAIN dir : Matches(n, l.filePrefix)}

\* the entries cleanupOldLogs looks at: regular files named prefix_*.log
Candidates(l) ==
    {n \in DOMAIN dir : ~dir[n].isDir /\ Matches(n, l.filePrefix)}

\* oldFiles after the loop over the directory entries, when file.Info()
\* failed for the entries in skip
OldFiles(l, skip) ==
    {n \in Candidates(l) \ skip :
        Expired(inodes[dir[n].ino].mtime, Cutoff(l))}

\* what the caller of cleanupOldLogs does with its result
CleanupDone(a, ok) ==
    IF a \in Procs
    THEN IF ok THEN InitPublish(a) ELSE InitCleanupFail(a)
    ELSE \* rotateAndCleanup logs the error; rotatorTicker.Reset(24h): a
         \* tick that waits in the channel stays there or is discarded,
         \* as the Go runtime in use has it
         /\ \E stale \in {A[a].tick, FALSE} :
               A' = [A EXCEPT ![a] = [@ EXCEPT !.pc = "wait", !.old = <<>>,
                                               !.last = NoTime,
                                               !.first = FALSE,
                                               !.tick = stale]]
         /\ UNCHANGED <<globalLogger, globalMu, L>>

\* cleanupOldLogs goes on with the names in old, having deleted last a
\* file modified at last: to the sort when there is something to sort, to
\* the deletion loop, or to its return
CleanupGoOn(a, old, last) ==
    IF old = <<>>
    THEN CleanupDone(a, TRUE)
    ELSE /\ A' = [A EXCEPT ![a] =
                     [@ EXCEPT !.pc = IF Len(old) >= 2 /\ A[a].pc = "cl_list"
                                      THEN "cl_sort" ELSE "cl_del",
                               !.old = old, !.last = last]]
         /\ UNCHANGED <<globalLogger, globalMu, L>>

\* os.ReadDir fails: return fmt.Errorf("failed to read log directory")
ReadDirFails(a) ==
    /\ CanFail
    /\ faultsLeft' = faultsLeft - 1
    /\ CleanupDone(a, FALSE)

\* os.ReadDir and the loop that collects oldFiles
CleanupList(a) ==
    /\ ~panicked
    /\ A[a].pc = "cl_list"
    /\ \/ ReadDirFails(a)
       \/ \* file.Info() fails for at most one entry
          \E skip \in SUBSET Candidates(L[A[a].cur]) :
             /\ Cardinality(skip) <= 1
             /\ skip # {} => CanFail
             /\ faultsLeft' = faultsLeft - Cardinality(skip)
             /\ CleanupGoOn(a, SeqOf(OldFiles(L[A[a].cur], skip)), NoTime)
    /\ UNCHANGED <<today, daysLeft, dir, inodes, stdout, nLoggers, opsLeft,
                   panicked>>

\* the orders sort.Slice can leave oldFiles in: by modification time
SortedOrders(old) ==
    {f \in [1..Len(old) -> Range(old)] :
        /\ Range(f) = Range(old)
        /\ \A j, k \in 1..Len(old) :
              j < k => inodes[dir[f[j]].ino].mtime
                           <= inodes[dir[f[k]].ino].mtime}

\* sort.Slice with os.Stat in the comparison: the error of os.Stat is
\* dropped, the FileInfo of a file that is gone or that the system refuses
\* to stat is nil, and ModTime() on it panics
CleanupSort(a) ==
    /\ ~panicked
    /\ A[a].pc = "cl_sort"
    /\ LET old == A[a].old
           gone == \E k \in 1..Len(old) : old[k] \notin DOMAIN dir
       IN
       \/ \* os.Stat fails for a name of the list
          /\ gone \/ CanFail
          /\ faultsLeft' = IF gone THEN faultsLeft ELSE faultsLeft - 1
          /\ panicked' = TRUE
          /\ A' = A
       \/ /\ ~gone
          /\ faultsLeft' = faultsLeft
          /\ panicked' = panicked
          /\ \E f \in SortedOrders(old) :
                A' = [A EXCEPT ![a] = [@ EXCEPT !.pc = "cl_del", !.old = f]]
    /\ UNCHANGED <<today, daysLeft, dir, inodes, stdout, globalLogger,
                   globalMu, nLoggers, L, opsLeft>>

\* one iteration of the deletion loop: os.Remove, then l.log on success;
\* after the last iteration cleanupOldLogs returns nil
CleanupDel(a) ==
    /\ ~panicked
    /\ A[a].pc = "cl_del"
    /\ LET n == Head(A[a].old) IN
       \/ \* os.Remove succeeds
          /\ n \in DOMAIN dir
          /\ dir' = [m \in DOMAIN dir \ {n} |-> dir[m]]
          /\ LogEffect(A[a].cur, a, "INFO", n)
          /\ faultsLeft' = faultsLeft
          /\ CleanupGoOn(a, Tail(A[a].old), inodes[dir[n].ino].mtime)
       \/ \* os.Remove fails: the file is gone, or the system refuses
          /\ n \notin DOMAIN dir \/ CanFail
          /\ faultsLeft' = IF n \in DOMAIN dir THEN faultsLeft - 1
                           ELSE faultsLeft
          /\ UNCHANGED <<dir, inodes, stdout>>
          /\ CleanupGoOn(a, Tail(A[a].old), A[a].last)
    /\ UNCHANGED <<today, daysLeft, nLoggers, opsLeft, panicked>>

(***************************************************************************)
(* The background goroutine of scheduleDailyTasks                          *)
(***************************************************************************)
\* select: case <-rotatorTicker.C
TaskTick(i) ==
    /\ ~panicked
    /\ A[TaskOf(i)].pc = "wait"
    /\ A[TaskOf(i)].tick
    /\ A' = [A EXCEPT ![TaskOf(i)] =
                [@ EXCEPT !.pc = "rot_close", !.tick = FALSE,
                          !.woke = today]]
    /\ UNCHANGED <<today, daysLeft, dir, inodes, stdout, faultsLeft,
                   globalLogger, globalMu, nLoggers, L, opsLeft, panicked>>

\* time.NewTicker(durationUntilMidnight): until rotatorTicker.Reset the
\* period is the duration from construction to the first midnight, which
\* can be shorter than rotateAndCleanup takes; the ticker then fires
\* again while the task is in its first cycle
TickFirst(i) ==
    /\ ~panicked
    /\ A[TaskOf(i)].pc \in {"rot_close", "rot_open", "cl_list", "cl_sort",
                            "cl_del"}
    /\ A[TaskOf(i)].first
    /\ ~A[TaskOf(i)].tick
    /\ A' = [A EXCEPT ![TaskOf(i)] = [@ EXCEPT !.tick = TRUE]]
    /\ UNCHANGED <<today, daysLeft, dir, inodes, stdout, faultsLeft,
                   globalLogger, globalMu, nLoggers, L, opsLeft, panicked>>

\* mutant: the cancellation is looked at only when the ticker has fired
TaskCancelledOnTick(i) ==
    /\ ~panicked
    /\ A[TaskOf(i)].pc = "wait"
    /\ A[TaskOf(i)].tick
    /\ L[i].cancelled
    /\ A' = [A EXCEPT ![TaskOf(i)] = [@ EXCEPT !.pc = "done"]]
    /\ UNCHANGED <<today, daysLeft, dir, inodes, stdout, faultsLeft,
                   globalLogger, globalMu, nLoggers, L, opsLeft, panicked>>

\* select: case <-ctx.Done(): return
TaskCancelled(i) ==
    /\ ~panicked
    /\ A[TaskOf(i)].pc = "wait"
    /\ L[i].cancelled
    /\ A' = [A EXCEPT ![TaskOf(i)] = [@ EXCEPT !.pc = "done"]]
    /\ UNCHANGED <<today, daysLeft, dir, inodes, stdout, faultsLeft,
                   globalLogger, globalMu, nLoggers, L, opsLeft, panicked>>

\* mutant: setupFileLogger closes the current file without the lock
RotCloseUnlocked(i) ==
    /\ ~panicked
    /\ A[TaskOf(i)].pc = "rot_close"
    /\ L' = [L EXCEPT ![i] = CloseCurrent(@)]
    /\ A' = [A EXCEPT ![TaskOf(i)] = [@ EXCEPT !.pc = "rot_open"]]
    /\ UNCHANGED <<today, daysLeft, dir, inodes, stdout, faultsLeft,
                   globalLogger, globalMu, nLoggers, opsLeft, panicked>>

\* mutant: setupFileLogger opens the next file without closing the current
RotCloseKeepsOpen(i) ==
    /\ ~panicked
    /\ A[TaskOf(i)].pc = "rot_close"
    /\ MuFree(i)
    /\ L' = [L EXCEPT ![i] = [@ EXCEPT !.mu = TaskOf(i)]]
    /\ A' = [A EXCEPT ![TaskOf(i)] = [@ EXCEPT !.pc = "rot_open"]]
    /\ UNCHANGED <<today, daysLeft, dir, inodes, stdout, faultsLeft,
                   globalLogger, globalMu, nLoggers, opsLeft, panicked>>

\* setupFileLogger, first half: l.mu.Lock(); close the current file
RotClose(i) ==
    /\ ~panicked
    /\ A[TaskOf(i)].pc = "rot_close"
    /\ MuFree(i)
    /\ L' = [L EXCEPT ![i] = [CloseCurrent(@) EXCEPT !.mu = TaskOf(i)]]
    /\ A' = [A EXCEPT ![TaskOf(i)] = [@ EXCEPT !.pc = "rot_open"]]
    /\ UNCHANGED <<today, daysLeft, dir, inodes, stdout, faultsLeft,
                   globalLogger, globalMu, nLoggers, opsLeft, panicked>>

\* mutant: setupFileLogger returns without releasing the instance lock
RotOpenKeepsLock(i) ==
    /\ ~panicked
    /\ A[TaskOf(i)].pc = "rot_open"
    /\ LET name == FileName(L[i].filePrefix, today) IN
       /\ name \in DOMAIN dir => ~dir[name].isDir
       /\ L' = [L EXCEPT ![i] = SetFile(@, OpenIno(name))]
       /\ dir' = OpenDir(name)
       /\ inodes' = OpenInodes(name)
    /\ A' = [A EXCEPT ![TaskOf(i)] = [@ EXCEPT !.pc = "cl_list"]]
    /\ UNCHANGED <<today, daysLeft, stdout, faultsLeft, globalLogger,
                   globalMu, nLoggers, opsLeft, panicked>>

\* setupFileLogger, second half: open today's file; l.mu.Unlock()
RotOpen(i) ==
    /\ ~panicked
    /\ A[TaskOf(i)].pc = "rot_open"
    /\ LET name == FileName(L[i].filePrefix, today) IN
       \/ /\ name \in DOMAIN dir => ~dir[name].isDir
          /\ L' = [L EXCEPT ![i] =
                      [SetFile(@, OpenIno(name)) EXCEPT !.mu = 0]]
          /\ dir' = OpenDir(name)
          /\ inodes' = OpenInodes(name)
          /\ faultsLeft' = faultsLeft
       \/ /\ CanFail
          /\ faultsLeft' = faultsLeft - 1
          /\ L' = [L EXCEPT ![i] = [@ EXCEPT !.mu = 0, !.openFailed = TRUE]]
          /\ UNCHANGED <<dir, inodes>>
    /\ A' = [A EXCEPT ![TaskOf(i)] = [@ EXCEPT !.pc = "cl_list"]]
    /\ UNCHANGED <<today, daysLeft, stdout, globalLogger, globalMu, nLoggers,
                   opsLeft, panicked>>

(***************************************************************************)
(* Time: a local midnight passes and the tickers whose period ends at it   *)
(* fire (the channel of a ticker holds one tick)                           *)
(***************************************************************************)
Midnight ==
    /\ ~panicked
    /\ daysLeft > 0
    /\ daysLeft' = daysLeft - 1
    /\ today' = today + 1
    /\ A' = [a \in Actors |->
                IF a \in Tasks /\ A[a].pc \notin {"none", "done"}
                THEN [A[a] EXCEPT !.tick = TRUE]
                ELSE A[a]]
    /\ UNCHANGED <<dir, inodes, stdout, faultsLeft, globalLogger, globalMu,
                   nLoggers, L, opsLeft, panicked>>

Next ==
    \/ \E p \in Procs, cfg \in Configs : InitGlobalLogger(p, cfg)
    \/ \E p \in Procs : GetLogger(p)
    \/ \E p \in Procs : ResetBegin(p)
    \/ \E p \in Procs : ResetClose(p)
    \/ \E p \in Procs, s \in Levels : \E i \in Issued : SevBegin(p, i, s)
    \/ \E p \in Procs : SevWrite(p)
    \/ \E p \in Procs, t \in Levels : \E i \in Issued : SetLevel(p, i, t)
    \/ \E p \in Procs : \E i \in Issued : Close(p, i)
    \/ \E p \in Procs, s \in Levels : GSevBegin(p, s)
    \/ \E p \in Procs : GSevWrite(p)
    \/ \E p \in Procs, t \in Levels : GSetBegin(p, t)
    \/ \E p \in Procs : GSetLevel(p)
    \/ \E a \in Actors : CleanupList(a)
    \/ \E a \in Actors : CleanupSort(a)
    \/ \E a \in Actors : CleanupDel(a)
    \/ \E i \in Insts : TaskTick(i)
    \/ \E i \in Insts : TickFirst(i)
    \/ \E i \in Insts : TaskCancelled(i)
    \/ \E i \in Insts : RotClose(i)
    \/ \E i \in Insts : RotOpen(i)
    \/ Midnight

Spec == Init /\ [][Next]_vars

(***************************************************************************)
(* Workloads.  Each one is the program under a class of callers: the same  *)
(* initial state and the same operations, restricted to the operations the *)
(* class uses, with its own budget of calls.                               *)
(***************************************************************************)
\* the configurations InitGlobalLogger accepts, and those of a file sink
ValidConfigs == {c \in Configs : ~Invalid(c)}
FileConfigs == {c \in ValidConfigs : OutputTypeOf(c) = "file"}

\* the severity the producers of a file workload log at
ProducerLevels == {InfoLevel}

\* callers that log and change the threshold, on either sink kind, and
\* close; no midnight passes
LevelOps == 3
InitLevels == InitWith(LevelOps, 0, 0)
NextLevels ==
    \/ \E p \in Procs, cfg \in ValidConfigs : InitGlobalLogger(p, cfg)
    \/ \E p \in Procs, s \in Levels : \E i \in Issued : SevBegin(p, i, s)
    \/ \E p \in Procs : SevWrite(p)
    \/ \E p \in Procs, t \in Levels : \E i \in Issued : SetLevel(p, i, t)
    \/ \E p \in Procs : \E i \in Issued : Close(p, i)
    \/ \E p \in Procs, s \in Levels : GSevBegin(p, s)
    \/ \E p \in Procs : GSevWrite(p)
    \/ \E p \in Procs, t \in Levels : GSetBegin(p, t)
    \/ \E p \in Procs : GSetLevel(p)
    \/ \E a \in Actors : CleanupList(a)
    \/ \E a \in Actors : CleanupSort(a)
    \/ \E a \in Actors : CleanupDel(a)
    \/ \E i \in Insts : TaskCancelled(i)

SpecLevels == InitLevels /\ [][NextLevels]_vars

\* producers that log to a file logger which is never closed, while
\* midnights pass and the background task rotates and cleans up; the
\* operating system does not fail
RotateOps == 3
InitRotate == InitWith(RotateOps, MaxDay, 0)
NextRotate ==
    \/ \E p \in Procs, cfg \in FileConfigs : InitGlobalLogger(p, cfg)
    \/ \E p \in Procs, s \in ProducerLevels :
          \E i \in Issued : SevBegin(p, i, s)
    \/ \E p \in Procs : SevWrite(p)
    \/ \E a \in Actors : CleanupList(a)
    \/ \E a \in Actors : CleanupSort(a)
    \/ \E a \in Actors : CleanupDel(a)
    \/ \E i \in Insts : TaskTick(i)
    \/ \E i \in Insts : RotClose(i)
    \/ \E i \in Insts : RotOpen(i)
    \/ Midnight

SpecRotate == InitRotate /\ [][NextRotate]_vars

\* callers that log to and close a logger of either sink kind while
\* midnights pass; the operating system does not fail
CloseOps == 3
InitClose == InitWith(CloseOps, MaxDay, 0)
NextClose ==
    \/ \E p \in Procs, cfg \in ValidConfigs : InitGlobalLogger(p, cfg)
    \/ \E p \in Procs, s \in ProducerLevels :
          \E i \in Issued : SevBegin(p, i, s)
    \/ \E p \in Procs : SevWrite(p)
    \/ \E p \in Procs : \E i \in Issued : Close(p, i)
    \/ \E a \in Actors : CleanupList(a)
    \/ \E a \in Actors : CleanupSort(a)
    \/ \E a \in Actors : CleanupDel(a)
    \/ \E i \in Insts : TaskTick(i)
    \/ \E i \in Insts : TaskCancelled(i)
    \/ \E i \in Insts : RotClose(i)
    \/ \E i \in Insts : RotOpen(i)
    \/ Midnight

SpecClose == InitClose /\ [][NextClose]_vars

\* callers that create and close a file logger while midnights pass
NextCancel ==
    \/ \E p \in Procs, cfg \in FileConfigs : InitGlobalLogger(p, cfg)
    \/ \E p \in Procs : \E i \in Issued : Close(p, i)
    \/ \E a \in Actors : CleanupList(a)
    \/ \E a \in Actors : CleanupSort(a)
    \/ \E a \in Actors : CleanupDel(a)
    \/ \E i \in Insts : TaskTick(i)
    \/ \E i \in Insts : TaskCancelled(i)
    \/ \E i \in Insts : RotClose(i)
    \/ \E i \in Insts : RotOpen(i)
    \/ Midnight

SpecCancel == InitClose /\ [][NextCancel]_vars

\* the scheduling of the background goroutine: the Go scheduler runs a
\* runnable goroutine (weak fairness of its steps; the lock it waits for in
\* setupFileLogger is free whenever no caller is inside a method), and a
\* select with several ready cases picks one at random, so a case that is
\* ready again and again is taken (strong fairness of the ctx.Done case)
TaskFairness ==
    \A i \in Insts :
       /\ SF_vars(TaskCancelled(i))
       /\ WF_vars(RotClose(i))
       /\ WF_vars(RotOpen(i))
       /\ WF_vars(CleanupList(TaskOf(i)))
       /\ WF_vars(CleanupSort(TaskOf(i)))
       /\ WF_vars(CleanupDel(TaskOf(i)))

FairCancel == SpecCancel /\ TaskFairness

\* callers that use the registry only, with any configuration, while the
\* operating system may fail; no midnight passes
RegistryOps == 3
InitRegistry == InitWith(RegistryOps, 0, MaxFaults)
NextRegistry ==
    \/ \E p \in Procs, cfg \in Configs : InitGlobalLogger(p, cfg)
    \/ \E p \in Procs : GetLogger(p)
    \/ \E p \in Procs : ResetBegin(p)
    \/ \E p \in Procs : ResetClose(p)
    \/ \E a \in Actors : CleanupList(a)
    \/ \E a \in Actors : CleanupSort(a)
    \/ \E a \in Actors : CleanupDel(a)
    \/ \E i \in Insts : TaskCancelled(i)

SpecRegistry == InitRegistry /\ [][NextRegistry]_vars

(***************************************************************************)
(* Properties                                                              *)
(***************************************************************************)
\* what the sink of instance i has received so far
Out(i) ==
    CASE L[i].logger.kind = "stdout" -> stdout
      [] L[i].logger.kind = "file" -> inodes[L[i].logger.ino].content
      [] OTHER -> <<>>

\* nothing is written anywhere in this step
NoOutput == stdout' = stdout /\ inodes' = inodes

\* caller p finishes the write of a severity call in this step
Writes(p) == A[p].pc \in {"write", "gwrite"} /\ A'[p].pc = "idle"

\* the entry the severity call in flight at p writes
OwnEntry(p) == Entry(LevelTag(A[p].sev), p, <<>>)

\* a severity call s that starts on instance i at threshold L[i].level
\* returns at once without output if s is below the threshold, and goes
\* on to its write otherwise
FilterOutcome(p, i, s) ==
    IF s >= L[i].level
    THEN /\ A'[p].pc \in {"write", "gwrite"}
         /\ A'[p].cur = i /\ A'[p].sev = s /\ A'[p].lvl0 = L[i].level
         /\ NoOutput
    ELSE /\ A'[p].pc = "idle"
         /\ NoOutput

\* C1: a severity call S on an open logger adds its message to the sink's
\* output if and only if S >= T, T being the threshold when the call is
\* made: a call below T returns without output, a call at or above T goes
\* on to its write, and the write of a call on a logger that has not been
\* closed appends exactly the call's entry to the sink.
C1_LevelFilter ==
    [][\A p \in Procs :
          /\ \A i \in Insts, s \in Levels :
                SevBegin(p, i, s) => FilterOutcome(p, i, s)
          /\ \A s \in Levels :
                GSevBegin(p, s) /\ globalLogger # 0
                    => FilterOutcome(p, globalLogger, s)
          /\ \A i \in Insts :
                Writes(p) /\ A[p].cur = i =>
                   /\ A[p].sev >= A[p].lvl0
                   /\ ~L[i].cancelled =>
                         Out(i)' = Append(Out(i), OwnEntry(p))]_vars

\* a call at the threshold has been written to the sink of an open logger
\* whose threshold is above Debug
C1_Witness ==
    \E i \in Issued :
       /\ ~L[i].cancelled
       /\ L[i].level = WarnLevel
       /\ \E k \in 1..Len(Out(i)) :
             Out(i)[k].tag = "WARN" /\ Out(i)[k].who \in Procs

\* s is an initial part of t
IsPrefix(s, t) == Len(s) <= Len(t) /\ SubSeq(t, 1, Len(s)) = s

\* what has been written stays: every output only grows at its end
OutputKept ==
    /\ IsPrefix(stdout, stdout')
    /\ \A k \in DOMAIN inodes :
          /\ k \in DOMAIN inodes'
          /\ IsPrefix(inodes[k].content, inodes'[k].content)

\* caller p completes a SetLevel(t) on instance i in this step
SetsLevel(p, i, t) ==
    \/ SetLevel(p, i, t)
    \/ GSetLevel(p) /\ A[p].cur = i /\ A[p].sev = t

\* C2: SetLevel(T) makes T the threshold and writes nothing; the threshold
\* of an instance changes in no other step, so that every severity call
\* that starts after SetLevel(T) has returned and before the next SetLevel
\* is filtered against T; and the entries written before stay in the
\* output unchanged, in this and in every other step.
C2_SetLevelLater ==
    [][\A i \in Insts :
          /\ \A p \in Procs, t \in Levels :
                SetsLevel(p, i, t) => L'[i].level = t /\ NoOutput
          /\ L[i].issued /\ L'[i].level # L[i].level =>
                \E p \in Procs, t \in Levels : SetsLevel(p, i, t)
          /\ \A p \in Procs, s \in Levels :
                SevBegin(p, i, s) =>
                   (A'[p].pc = "write") = (s >= L[i].level)
          /\ OutputKept]_vars

\* a call at Error is on its way to the sink of a logger whose threshold
\* SetLevel has raised to Error
C2_Witness ==
    \E i \in Issued, p \in Procs :
       /\ L[i].level = ErrorLevel
       /\ A[p].pc = "write" /\ A[p].cur = i
       /\ A[p].sev = ErrorLevel /\ A[p].lvl0 = ErrorLevel

C5_ClosedIsSilent ==
    [][\A p \in Procs : Writes(p) /\ A[p].after => NoOutput]_vars

\* caller p takes a step of a severity call that started on instance i
\* after Close() had returned
StepAfterClose(p, i) ==
    \/ /\ L[i].cancelled
       /\ A[p].pc = "idle"
       /\ \E s \in Levels : SevBegin(p, i, s)
    \/ /\ A[p].after
       /\ A[p].cur = i
       /\ Writes(p)

\* C6: a severity call that starts after Close() has returned does not
\* panic and does not open a file: each of its steps leaves the instance
\* (its handle, its count of open files, its sink) and the directory as
\* they were, so a handle that Close() cleared is still cleared after the
\* call.
C6_NoReopen ==
    [][\A p \in Procs, i \in Insts :
          StepAfterClose(p, i) =>
             /\ ~panicked'
             /\ L' = L
             /\ dir' = dir
             /\ DOMAIN inodes' = DOMAIN inodes
             /\ L[i].currentFile = NoFile =>
                   L'[i].currentFile = NoFile /\ L'[i].nOpen = 0]_vars

\* a severity call made after Close() has returned on a file logger whose
\* handle is cleared
C6_Witness ==
    \E i \in Issued, p \in Procs :
       /\ L[i].outputType = "file"
       /\ L[i].cancelled /\ L[i].currentFile = NoFile
       /\ A[p].pc = "idle" /\ A[p].op = "sev" /\ A[p].after

\* C7: every Close() returns with the task cancelled and the handle closed
\* and cleared, without a panic; a Close() of an instance that is closed
\* already changes nothing; and the lock Close() waits for is only ever
\* held by a rotation that is about to give it back.
C7_CloseIdempotent ==
    /\ [](\A i \in Insts :
            L[i].mu # 0 =>
               L[i].mu = TaskOf(i) /\ A[TaskOf(i)].pc = "rot_open")
    /\ [][\A p \in Procs, i \in Insts :
            (A[p].pc = "idle" /\ Close(p, i)) =>
               /\ ~panicked'
               /\ L'[i].cancelled
               /\ L'[i].currentFile = NoFile
               /\ L'[i].nOpen = 0
               /\ ~L'[i].logger.open \/ L[i].outputType = "console"
               /\ (L[i].cancelled /\ L[i].currentFile = NoFile) => L' = L]_vars

\* two callers have closed the same file logger, one after the other
C7_Witness ==
    \E i \in Issued, p, q \in Procs :
       /\ p # q
       /\ L[i].outputType = "file"
       /\ L[i].cancelled /\ L[i].currentFile = NoFile
       /\ A[p].pc = "idle" /\ A[p].op = "close"
       /\ A[q].pc = "idle" /\ A[q].op = "close"

\* C8: once Close() has cancelled a file logger whose background task is
\* running, the task terminates (or the process has died of a panic).
C8_TaskTerminates ==
    \A i \in Insts :
       (L[i].issued /\ L[i].cancelled /\ A[TaskOf(i)].pc # "none")
          ~> (A[TaskOf(i)].pc = "done" \/ panicked)

\* the task of a closed file logger has returned
C8_Witness ==
    \E i \in Issued :
       L[i].cancelled /\ A[TaskOf(i)].pc = "done" /\ ~panicked

\* the configuration an instance was constructed with
ConfigOf(l) ==
    [level |-> l.level, outputType |-> l.outputType, logDir |-> l.logDir,
     filePrefix |-> l.filePrefix, retentionDays |-> l.retentionDays]

\* the callers that are inside the construction of a file logger
Constructing == {p \in Procs : A[p].pc \in {"cl_list", "cl_sort", "cl_del"}}

\* the instances constructed and not cancelled or closed since
Live == {i \in 1..nLoggers : ~L[i].cancelled}

\* C9: an InitGlobalLogger call that finds the singleton returns it without
\* error, whatever its configuration, and changes nothing: not the
\* registry, not an instance, not a file, not the output, and no instance
\* is constructed.
C9_RepeatInit ==
    [][\A p \in Procs, cfg \in Configs :
          (globalLogger # 0 /\ A[p].pc = "idle"
              /\ InitGlobalLogger(p, cfg)) =>
             /\ A'[p].pc = "idle"
             /\ A'[p].ret = globalLogger
             /\ ~A'[p].err
             /\ \A a \in Actors \ {p} : A'[a] = A[a]
             /\ UNCHANGED <<globalLogger, globalMu, nLoggers, L, dir, inodes,
                            stdout, faultsLeft, panicked>>]_vars

\* two callers hold the one instance, the second from a repeat call
C9_Witness ==
    /\ nLoggers = 1
    /\ globalLogger = 1
    /\ \E p, q \in Procs :
          /\ p # q
          /\ A[p].op = "init" /\ A[p].ret = 1 /\ ~A[p].err
          /\ A[q].op = "init" /\ A[q].ret = 1 /\ ~A[q].err
          /\ A[p].pc = "idle" /\ A[q].pc = "idle"

\* C10: at any time at most one caller is constructing an instance, and
\* only while there is no singleton; at most one instance is live; the
\* instance is constructed from the configuration of the call that
\* constructs it and keeps it; the registry is set only from nil, to the
\* instance of the call that sets it, and is changed afterwards only by a
\* reset to nil; and every InitGlobalLogger that returns without error
\* returns the instance the registry holds.
C10_OneSingleton ==
    /\ [](/\ Cardinality(Constructing) <= 1
          /\ Constructing # {} => globalLogger = 0
          /\ Cardinality(Live) <= 1
          /\ globalLogger # 0 => Live = {globalLogger})
    /\ [][/\ globalLogger' # globalLogger =>
                \/ globalLogger' = 0
                \/ /\ globalLogger = 0
                   /\ \E p \in Procs :
                         /\ A[p].op = "init" \/ A[p].pc = "idle"
                         /\ A'[p].pc = "idle" /\ A'[p].op = "init"
                         /\ A'[p].ret = globalLogger' /\ ~A'[p].err
          /\ \A p \in Procs :
                /\ \A cfg \in Configs :
                      (A[p].pc = "idle" /\ InitGlobalLogger(p, cfg)
                          /\ nLoggers' # nLoggers) =>
                         ConfigOf(L'[nLoggers']) = ConfigOf(NewInstance(cfg))
                /\ (A'[p].pc = "idle" /\ A'[p].op = "init" /\ ~A'[p].err
                       /\ A'[p] # A[p]) =>
                      A'[p].ret = globalLogger' /\ globalLogger' # 0
          /\ \A i \in 1..nLoggers : ConfigOf(L'[i]) = ConfigOf(L[i])]_vars

\* the first construction failed and the second caller's succeeded: the
\* singleton is the second instance, a file logger
C10_Witness ==
    /\ nLoggers = 2
    /\ globalLogger = 2
    /\ L[1].cancelled
    /\ L[2].outputType = "file"
    /\ \E p \in Procs :
          A[p].pc = "idle" /\ A[p].op = "init" /\ A[p].ret = 2

\* caller p returns from InitGlobalLogger in this step
InitReturns(p) ==
    /\ A'[p].pc = "idle"
    /\ A'[p].op = "init"
    /\ \/ A[p].pc \in {"cl_list", "cl_sort", "cl_del"}
       \/ /\ A[p].pc = "idle"
          /\ \E cfg \in Configs : InitGlobalLogger(p, cfg)

\* C11: an InitGlobalLogger that returns an error returns no instance and
\* leaves the registry nil, so that GetLogger (which returns what the
\* registry holds) returns nil; every cause of failure ends so: a rejected
\* configuration, a failing MkdirAll or OpenFile, a failing first cleanup.
\* Earlier failures do not count against a later call: a call with a valid
\* configuration during which no operating-system call fails constructs
\* the instance, and publishes it at once (console) or goes on to the
\* first cleanup (file), whose success publishes it.
C11_FailedInit ==
    [][\A p \in Procs :
          /\ (InitReturns(p) /\ A'[p].err) =>
                /\ A'[p].ret = 0
                /\ globalLogger = 0 /\ globalLogger' = 0
                /\ globalMu' = 0
          /\ (A[p].pc = "idle" /\ GetLogger(p)) => A'[p].ret = globalLogger
          /\ \A cfg \in Configs :
                (A[p].pc = "idle" /\ globalLogger = 0
                    /\ InitGlobalLogger(p, cfg)) =>
                   IF Invalid(cfg) \/ faultsLeft' # faultsLeft
                   THEN A'[p].err /\ A'[p].pc = "idle"
                   ELSE /\ nLoggers' = nLoggers + 1
                        /\ ~A'[p].err
                        /\ IF OutputTypeOf(cfg) = "console"
                           THEN globalLogger' = nLoggers' /\ A'[p].ret = nLoggers'
                           ELSE A'[p].pc = "cl_list" /\ A'[p].cur = nLoggers'
          /\ (A[p].pc \in {"cl_list", "cl_sort", "cl_del"} /\ InitReturns(p)) =>
                IF A[p].pc = "cl_list" /\ faultsLeft' # faultsLeft
                      /\ A[p].old = <<>> /\ dir' = dir
                      /\ L'[A[p].cur].cancelled
                THEN A'[p].err
                ELSE ~A'[p].err /\ globalLogger' = A[p].cur
                        /\ A'[p].ret = A[p].cur]_vars

\* a construction failed in its first cleanup, and a later call with a
\* valid configuration has created the singleton
C11_Witness ==
    /\ nLoggers = 2
    /\ globalLogger = 2
    /\ L[1].cancelled /\ ~L[1].issued /\ L[1].currentFile # NoFile
    /\ \E p \in Procs :
          A[p].pc = "idle" /\ A[p].op = "init" /\ A[p].ret = 2 /\ ~A[p].err

\* the configurations the claim says a first call rejects
Rejected(cfg) ==
    \/ cfg.OutputType \notin {"", "console", "file"}
    \/ /\ cfg.OutputType = "file"
       /\ cfg.LogDir = "" \/ cfg.FilePrefix = <<>>

\* C12: a first InitGlobalLogger fails, before it has touched anything, if
\* the output type is not "console", "file" or empty, or if it is "file"
\* and the directory or the prefix is empty; with a console configuration
\* (or an empty output type) it succeeds without directory and prefix.
C12_Validation ==
    [][\A p \in Procs, cfg \in Configs :
          (A[p].pc = "idle" /\ globalLogger = 0
              /\ InitGlobalLogger(p, cfg)) =>
             /\ Rejected(cfg) =>
                   /\ A'[p].err /\ A'[p].ret = 0 /\ A'[p].pc = "idle"
                   /\ UNCHANGED <<globalLogger, nLoggers, L, dir, inodes,
                                  faultsLeft>>
             /\ cfg.OutputType \in {"", "console"} =>
                   /\ ~A'[p].err /\ A'[p].pc = "idle"
                   /\ A'[p].ret = globalLogger' /\ globalLogger' # 0
                   /\ L'[globalLogger'].outputType = "console"]_vars

\* a first call has been rejected by the validation alone
C12_Witness ==
    /\ nLoggers = 0
    /\ faultsLeft = MaxFaults
    /\ opsLeft = RegistryOps - 1
    /\ \E p \in Procs :
          A[p].pc = "idle" /\ A[p].op = "init" /\ A[p].err

\* C13: the instance a call constructs has the output type of the
\* configuration, "console" if that is empty, its retention if that is
\* positive and 7 otherwise, and its level, which is Debug (the zero value)
\* when unset; output type and retention never change afterwards; and at
\* the level Debug every severity call goes on to its write.
C13_Defaults ==
    [][/\ \A p \in Procs, cfg \in Configs :
             (A[p].pc = "idle" /\ InitGlobalLogger(p, cfg)
                 /\ nLoggers' # nLoggers) =>
                /\ L'[nLoggers'].outputType =
                      IF cfg.OutputType = "" THEN "console"
                      ELSE cfg.OutputType
                /\ L'[nLoggers'].retentionDays =
                      IF cfg.RetentionDays <= 0 THEN 7
                      ELSE cfg.RetentionDays
                /\ L'[nLoggers'].level = cfg.Level
                /\ cfg.Level = 0 => L'[nLoggers'].level = DebugLevel
       /\ \A i \in 1..nLoggers :
             /\ L'[i].outputType = L[i].outputType
             /\ L'[i].retentionDays = L[i].retentionDays
             /\ L[i].retentionDays > 0
       /\ \A p \in Procs, s \in Levels :
             /\ \A i \in Insts :
                   (L[i].level = DebugLevel /\ A[p].pc = "idle"
                       /\ SevBegin(p, i, s)) => A'[p].pc = "write"
             /\ (globalLogger # 0 /\ A[p].pc = "idle" /\ GSevBegin(p, s)
                    /\ L[globalLogger].level = DebugLevel) =>
                   A'[p].pc = "gwrite"]_vars

\* the logger made from the empty configuration is a console logger with
\* a retention of 7 days, and a Debug call is in its output
C13_Witness ==
    /\ opsLeft = LevelOps - 2
    /\ \E i \in Issued :
          /\ L[i].outputType = "console"
          /\ L[i].retentionDays = 7
          /\ L[i].level = DebugLevel
          /\ ~L[i].cancelled
          /\ \E k \in 1..Len(stdout) : stdout[k].tag = "DEBUG"

\* C14: ResetGlobalLogger leaves the registry nil; a construction takes a
\* Logger object that did not exist before and gives it the threshold,
\* output type, directory, prefix and retention of the configuration of
\* the constructing call, which it keeps until it is published; and the
\* registry goes from nil only to an instance that has never been
\* published before and is not closed.
C14_NewAfterReset ==
    [][/\ \A p \in Procs :
             /\ (A[p].pc = "reset_close" /\ ResetClose(p)) =>
                   globalLogger' = 0
             /\ \A cfg \in Configs :
                   (A[p].pc = "idle" /\ InitGlobalLogger(p, cfg)
                       /\ nLoggers' # nLoggers) =>
                      /\ nLoggers' \notin 1..nLoggers
                      /\ L[nLoggers'] = NoInstance
                      /\ L'[nLoggers'].level = cfg.Level
                      /\ L'[nLoggers'].outputType =
                            IF cfg.OutputType = "" THEN "console"
                            ELSE cfg.OutputType
                      /\ L'[nLoggers'].logDir = cfg.LogDir
                      /\ L'[nLoggers'].filePrefix = cfg.FilePrefix
                      /\ L'[nLoggers'].retentionDays =
                            IF cfg.RetentionDays <= 0 THEN 7
                            ELSE cfg.RetentionDays
       /\ \A i \in 1..nLoggers : ConfigOf(L'[i]) = ConfigOf(L[i])
       /\ globalLogger' \notin {0, globalLogger} =>
             /\ globalLogger = 0
             /\ ~L[globalLogger'].issued
             /\ ~L'[globalLogger'].cancelled]_vars

\* the instance published before the reset is closed, and the singleton
\* is a second instance with another configuration
C14_Witness ==
    /\ nLoggers = 2
    /\ globalLogger = 2
    /\ L[1].issued /\ L[1].cancelled
    /\ ConfigOf(L[1]) # ConfigOf(L[2])
    /\ \E p \in Procs :
          A[p].pc = "idle" /\ A[p].op = "init" /\ A[p].ret = 2

\* C15: ResetGlobalLogger on a nil registry returns and changes nothing;
\* on a singleton it holds the registry lock until it has closed the
\* instance (context cancelled, file closed and cleared, nothing open) and
\* set the registry to nil, leaving every other instance and every file
\* as they were; GetLogger returns what the registry holds, nil after the
\* reset.
C15_Reset ==
    [][\A p \in Procs :
          /\ (A[p].pc = "idle" /\ ResetBegin(p)) =>
                /\ UNCHANGED <<globalLogger, nLoggers, L, dir, inodes, stdout>>
                /\ IF globalLogger = 0
                   THEN A'[p].pc = "idle" /\ ~A'[p].err /\ globalMu' = globalMu
                   ELSE A'[p].pc = "reset_close" /\ globalMu' = p
                           /\ A'[p].cur = globalLogger
          /\ (A[p].pc = "reset_close" /\ ResetClose(p)) =>
                /\ A[p].cur = globalLogger
                /\ globalLogger' = 0
                /\ globalMu' = 0
                /\ A'[p].pc = "idle" /\ ~A'[p].err
                /\ L'[globalLogger].cancelled
                /\ L'[globalLogger].currentFile = NoFile
                /\ L'[globalLogger].nOpen = 0
                /\ ~L'[globalLogger].logger.open
                      \/ L[globalLogger].outputType = "console"
                /\ \A i \in Insts \ {globalLogger} : L'[i] = L[i]
                /\ UNCHANGED <<nLoggers, dir, inodes, stdout>>
          /\ (A[p].pc = "idle" /\ GetLogger(p)) =>
                A'[p].ret = globalLogger]_vars

\* one caller has created a file logger, reset the registry, and got nil
\* from GetLogger; the former instance is cancelled and its file closed
C15_Witness ==
    /\ globalLogger = 0
    /\ nLoggers = 1
    /\ L[1].outputType = "file" /\ L[1].issued
    /\ L[1].cancelled /\ L[1].currentFile = NoFile /\ L[1].nOpen = 0
    /\ opsLeft = RegistryOps - 3
    /\ \E p \in Procs :
          /\ A[p].pc = "idle" /\ A[p].op = "get" /\ A[p].ret = 0
          /\ \A q \in Procs \ {p} : A[q].op = "none"

\* The callers of the package-level functions: the singleton is
\* constructed, used through the global functions, closed through the
\* pointer GetLogger returns, and reset.  No operating-system call fails
\* and the day does not change.
InitSingleton == InitWith(RegistryOps, 0, 0)

NextSingleton ==
    \/ \E p \in Procs, cfg \in ValidConfigs : InitGlobalLogger(p, cfg)
    \/ \E p \in Procs : GetLogger(p)
    \/ \E p \in Procs : \E i \in Issued : Close(p, i)
    \/ \E p \in Procs : ResetBegin(p)
    \/ \E p \in Procs : ResetClose(p)
    \/ \E p \in Procs, s \in Levels : GSevBegin(p, s)
    \/ \E p \in Procs : GSevWrite(p)
    \/ \E p \in Procs, t \in Levels : GSetBegin(p, t)
    \/ \E p \in Procs : GSetLevel(p)
    \/ \E a \in Actors : CleanupList(a)
    \/ \E a \in Actors : CleanupSort(a)
    \/ \E a \in Actors : CleanupDel(a)
    \/ \E i \in Insts : TaskCancelled(i)

SpecSingleton == InitSingleton /\ [][NextSingleton]_vars

\* C16: while the registry is nil, a call of the global Debug, Info, Warn
\* or Error and a call of the global SetLevel return at once without an
\* error or a panic, write nothing to standard output or to any file, and
\* leave the registry, every instance and the directory as they were.
C16_GlobalNoOp ==
    [][\A p \in Procs :
          (/\ globalLogger = 0
           /\ A[p].pc = "idle"
           /\ \/ \E s \in Levels : GSevBegin(p, s)
              \/ \E t \in Levels : GSetBegin(p, t))
          => /\ A'[p].pc = "idle"
             /\ A'[p].op \in {"gsev", "gset"}
             /\ ~A'[p].err
             /\ NoOutput
             /\ UNCHANGED <<globalLogger, globalMu, nLoggers, L, dir,
                            panicked>>]_vars

\* a console logger was constructed and reset, and a global severity call
\* then returned without output
C16_Witness ==
    /\ globalLogger = 0
    /\ nLoggers = 1
    /\ L[1].outputType = "console" /\ L[1].cancelled
    /\ stdout = <<>>
    /\ opsLeft = RegistryOps - 3
    /\ \E p \in Procs :
          /\ A[p].pc = "idle" /\ A[p].op = "gsev"
          /\ \A q \in Procs \ {p} : A[q].op = "none"

\* C17: Close on an instance leaves the registry as it is; the registry
\* goes from an instance to nil only at the end of ResetGlobalLogger; and
\* while the registry holds a closed instance, GetLogger returns that
\* instance and InitGlobalLogger returns it without error, constructing
\* nothing and reopening nothing.
C17_CloseKeepsRegistry ==
    [][/\ \A p \in Procs : \A i \in Insts :
             (A[p].pc = "idle" /\ i \in Issued /\ Close(p, i)) =>
                globalLogger' = globalLogger
       /\ (globalLogger # 0 /\ globalLogger' # globalLogger) =>
             /\ globalLogger' = 0
             /\ \E p \in Procs : A[p].pc = "reset_close" /\ ResetClose(p)
       /\ \A p \in Procs :
             (/\ globalLogger # 0
              /\ A[p].pc = "idle"
              /\ L[globalLogger].cancelled
              /\ \/ GetLogger(p)
                 \/ \E cfg \in Configs : InitGlobalLogger(p, cfg))
             => /\ A'[p].pc = "idle"
                /\ A'[p].ret = globalLogger
                /\ ~A'[p].err
                /\ UNCHANGED <<globalLogger, nLoggers, L, dir, inodes>>]_vars

\* one caller has constructed the singleton, closed it, and got the closed
\* instance back from a second InitGlobalLogger
C17_Witness ==
    /\ nLoggers = 1
    /\ globalLogger = 1
    /\ L[1].cancelled
    /\ opsLeft = RegistryOps - 3
    /\ \E p \in Procs :
          /\ A[p].pc = "idle" /\ A[p].op = "init"
          /\ A[p].ret = 1 /\ ~A[p].err
          /\ \A q \in Procs \ {p} : A[q].op = "none"

\* C18: when cleanupOldLogs has read the directory, the files it goes on
\* to delete are exactly the regular files named prefix_*.log whose
\* modification day is before today minus the retention days; a file
\* dated at the cutoff or later is not among them.  The deletion loop
\* removes the file at the head of that list and goes on with the rest,
\* and no file leaves the directory in any other way.  With retention 1
\* and the files of earlier runs dated 3, 2, 1 and 0 days before the start:
\* a file of those that is gone was dated before today minus 1, and a
\* caller that has its logger back from InitGlobalLogger finds the files
\* dated 3 and 2 days back gone.
C18_CleanupCutoff ==
    /\ [][/\ \A a \in Actors :
               (A[a].pc = "cl_list" /\ CleanupList(a)) =>
                  \A i \in Insts :
                     A[a].cur = i =>
                        LET old == {n \in DOMAIN dir :
                                      /\ ~dir[n].isDir
                                      /\ Matches(n, L[i].filePrefix)
                                      /\ inodes[dir[n].ino].mtime
                                            < today - L[i].retentionDays}
                        IN  IF old = {}
                            THEN A'[a].pc \notin {"cl_sort", "cl_del"}
                            ELSE /\ A'[a].pc \in {"cl_sort", "cl_del"}
                                 /\ Range(A'[a].old) = old
                                 /\ Len(A'[a].old) = Cardinality(old)
          /\ \A a \in Actors :
               (A[a].pc = "cl_del" /\ CleanupDel(a)) =>
                  /\ Head(A[a].old) \notin DOMAIN dir'
                  /\ DOMAIN dir' = DOMAIN dir \ {Head(A[a].old)}
                  /\ Tail(A[a].old) # <<>> =>
                        A'[a].pc = "cl_del" /\ A'[a].old = Tail(A[a].old)
          /\ (DOMAIN dir \ DOMAIN dir' # {}) =>
                \E a \in Actors : A[a].pc = "cl_del" /\ CleanupDel(a)]_vars
    /\ [](\A n \in DOMAIN InitDir \ DOMAIN dir :
             /\ \E i \in 1..nLoggers :
                   InitInodes[InitDir[n].ino].mtime
                      < today - L[i].retentionDays
             /\ Matches(n, <<"a">>))
    /\ [](\A p \in Procs :
             (A[p].pc = "idle" /\ A[p].op = "init" /\ A[p].ret # 0) =>
                /\ <<"a", "_", "2023-07-01", ".log">> \notin DOMAIN dir
                /\ <<"a", "_", "2023-07-02", ".log">> \notin DOMAIN dir)

\* on the day of the start a logger with retention 1 has been returned:
\* the files 3 and 2 days old are gone, the files 1 and 0 days old remain
C18_Witness ==
    /\ today = 0
    /\ nLoggers = 1 /\ L[1].retentionDays = 1
    /\ \E p \in Procs : A[p].pc = "idle" /\ A[p].op = "init" /\ A[p].ret = 1
    /\ <<"a", "_", "2023-07-01", ".log">> \notin DOMAIN dir
    /\ <<"a", "_", "2023-07-02", ".log">> \notin DOMAIN dir
    /\ <<"a", "_", "2023-07-03", ".log">> \in DOMAIN dir
    /\ <<"a", "_", "2023-07-04", ".log">> \in DOMAIN dir
    /\ inodes[dir[<<"a", "_", "2023-07-03", ".log">>].ino].mtime = today - 1

PrefixP == <<"a">>
PrefixQ == <<"a", "_", "b">>

SharedConfigs ==
    { Config(InfoLevel, "file", "d", PrefixP, 1),
      Config(InfoLevel, "file", "d", PrefixQ, 1) }

InitShared ==
    /\ today = 0
    /\ dir = InitDir @@
               (PrefixQ \o <<"_", "2023-07-01", ".log">> :>
                   [ino |-> Len(InitInodes) + 1, isDir |-> FALSE])
    /\ inodes = Append(InitInodes, [mtime |-> -3, content |-> <<>>])
    /\ stdout = <<>>
    /\ faultsLeft = 0
    /\ globalLogger = 0
    /\ globalMu = 0
    /\ nLoggers = 0
    /\ L = [i \in Insts |-> NoInstance]
    /\ A = [a \in Actors |-> IF a \in Procs THEN NoActor("idle")
                                            ELSE NoActor("none")]
    /\ opsLeft = RegistryOps
    /\ daysLeft = 0
    /\ panicked = FALSE

NextShared ==
    \/ \E p \in Procs, cfg \in SharedConfigs : InitGlobalLogger(p, cfg)
    \/ \E p \in Procs, s \in ProducerLevels :
          \E i \in Issued : SevBegin(p, i, s)
    \/ \E p \in Procs : SevWrite(p)
    \/ \E p \in Procs : ResetBegin(p)
    \/ \E p \in Procs : ResetClose(p)
    \/ \E a \in Actors : CleanupList(a)
    \/ \E a \in Actors : CleanupSort(a)
    \/ \E a \in Actors : CleanupDel(a)
    \/ \E i \in Insts : TaskCancelled(i)

SpecShared == InitShared /\ [][NextShared]_vars

\* the date tokens of the file names in use
DateTokens == {"2023-07-01", "2023-07-02", "2023-07-03"} \cup Range(DateTab)

\* name is prefix_YYYY-MM-DD.log, a log file of the logger with that prefix
IsLogFileOf(name, prefix) ==
    \E d \in DateTokens : name = prefix \o <<"_", d, ".log">>

\* C20: the cleanup of a logger never deletes a file named Q_YYYY-MM-DD.log
\* for a prefix Q other than the logger's own, and two loggers with
\* different prefixes are never bound to the same file.
C20_NoInterference ==
    /\ [][\A a \in Actors : \A i \in Insts :
             (A[a].pc = "cl_del" /\ A[a].cur = i /\ CleanupDel(a)) =>
                \A n \in DOMAIN dir \ DOMAIN dir' :
                   \A Q \in {PrefixP, PrefixQ} \ {L[i].filePrefix} :
                      ~IsLogFileOf(n, Q)]_vars
    /\ [](\A i, j \in 1..nLoggers :
             (/\ L[i].filePrefix # L[j].filePrefix
              /\ L[i].logger.kind = "file"
              /\ L[j].logger.kind = "file")
             => L[i].logger.ino # L[j].logger.ino)

\* The background task of a file logger over the days: callers construct
\* the logger and log, midnights pass, and the first period of the ticker
\* may be shorter than the first cycle takes.  No operating-system call
\* fails.
InitDaily == InitWith(RotateOps, MaxDay, 0)

NextDaily ==
    \/ \E p \in Procs, cfg \in FileConfigs : InitGlobalLogger(p, cfg)
    \/ \E p \in Procs, s \in ProducerLevels :
          \E i \in Issued : SevBegin(p, i, s)
    \/ \E p \in Procs : SevWrite(p)
    \/ \E a \in Actors : CleanupList(a)
    \/ \E a \in Actors : CleanupSort(a)
    \/ \E a \in Actors : CleanupDel(a)
    \/ \E i \in Insts : TaskTick(i)
    \/ \E i \in Insts : TickFirst(i)
    \/ \E i \in Insts : RotClose(i)
    \/ \E i \in Insts : RotOpen(i)
    \/ Midnight

SpecDaily == InitDaily /\ [][NextDaily]_vars

\* C21: the background task of a file logger that is not closed starts a
\* rotate-then-cleanup cycle only on the day after the day of its last
\* cycle (of the construction, for the first cycle), so that no cycle runs
\* before the first midnight and none is doubled; and a task that waits
\* with no tick pending has had its cycle of today, so that none is
\* skipped.
C21_OneCyclePerMidnight ==
    /\ [][\A i \in Insts :
             (A[TaskOf(i)].pc = "wait" /\ TaskTick(i)) =>
                today = A[TaskOf(i)].woke + 1]_vars
    /\ [](\A i \in 1..nLoggers :
             (/\ A[TaskOf(i)].pc = "wait"
              /\ ~A[TaskOf(i)].tick
              /\ ~L[i].cancelled)
             => A[TaskOf(i)].woke = today)

\* A file logger whose sink changes under its callers: callers construct
\* it, log and close it, midnights pass, the background
\* task rotates and cleans up, and operating-system calls may fail.  The
\* midnights pass while no caller is inside a call.
SinkOps == 2

\* the log directory holds the log files of two earlier days only
InitSink ==
    /\ today = 0
    /\ dir = [n \in {<<"a", "_", "2023-07-01", ".log">>,
                     <<"a", "_", "2023-07-02", ".log">>} |-> InitDir[n]]
    /\ inodes = SubSeq(InitInodes, 1, 2)
    /\ stdout = <<>>
    /\ faultsLeft = MaxFaults
    /\ globalLogger = 0
    /\ globalMu = 0
    /\ nLoggers = 0
    /\ L = [i \in Insts |-> NoInstance]
    /\ A = [a \in Actors |-> IF a \in Procs THEN NoActor("idle")
                                            ELSE NoActor("none")]
    /\ opsLeft = SinkOps
    /\ daysLeft = MaxDay
    /\ panicked = FALSE

NextSink ==
    \/ \E p \in Procs, cfg \in FileConfigs : InitGlobalLogger(p, cfg)
    \/ \E p \in Procs, s \in ProducerLevels :
          \E i \in Issued : SevBegin(p, i, s)
    \/ \E p \in Procs : SevWrite(p)
    \/ \E p \in Procs : \E i \in Issued : Close(p, i)
    \/ \E a \in Actors : CleanupList(a)
    \/ \E a \in Actors : CleanupSort(a)
    \/ \E a \in Actors : CleanupDel(a)
    \/ \E i \in Insts : TaskTick(i)
    \/ \E i \in Insts : TaskCancelled(i)
    \/ \E i \in Insts : RotClose(i)
    \/ \E i \in Insts : RotOpen(i)
    \/ (\A p \in Procs : A[p].pc = "idle") /\ Midnight

SpecSink == InitSink /\ [][NextSink]_vars

\* C22: an instance never has more than one file open; a step that opens
\* a file for an instance finds the instance with no file open and its
\* handle cleared, and a rotation that has closed the old file holds the
\* instance lock until it has opened the new one.
C22_OneHandle ==
    /\ [](\A i \in Insts :
             /\ L[i].nOpen \in {0, 1}
             /\ L[i].currentFile # NoFile => L[i].nOpen = 1)
    /\ [][\A i \in Insts :
             L'[i].nOpen > L[i].nOpen =>
                /\ L[i].nOpen = 0
                /\ L[i].currentFile = NoFile
                /\ L'[i].nOpen = 1
                /\ L'[i].currentFile # NoFile
                /\ \/ L[i].mu = TaskOf(i) /\ A[TaskOf(i)].pc = "rot_open"
                   \/ ~L[i].issued /\ i = nLoggers']_vars

\* a rotation after midnight has closed the file of the day before and
\* opened the file of the new day: one file is open
C22_Witness ==
    \E i \in Issued :
       /\ today = 1
       /\ A[TaskOf(i)].pc \in {"cl_list", "cl_sort", "cl_del", "wait"}
       /\ A[TaskOf(i)].woke = 1
       /\ L[i].currentFile # NoFile
       /\ L[i].currentFile = dir[FileName(L[i].filePrefix, 1)].ino
       /\ L[i].nOpen = 1

\* C23: every step that gives an instance a file handle, in the
\* construction or in a rotation, binds it to the file that the name
\* prefix_date.log denotes at that step, where date is the local date of
\* that step; the handle changes in no other way than by such a step or by
\* being cleared; and until the background task has received its first
\* tick, the handle of a logger that is not closed is the one of the
\* construction.
C23_ActiveFileDate ==
    /\ [][\A i \in Insts :
             L'[i].currentFile # L[i].currentFile =>
                \/ L'[i].currentFile = NoFile
                \/ LET name == L'[i].filePrefix
                                  \o <<"_", DateTab[today + 1], ".log">>
                   IN  /\ L[i].currentFile = NoFile
                       /\ name \in DOMAIN dir'
                       /\ ~dir'[name].isDir
                       /\ L'[i].currentFile = dir'[name].ino
                       /\ L'[i].logger = FileLogger(dir'[name].ino)
                       /\ \/ ~L[i].issued /\ i = nLoggers'
                          \/ A[TaskOf(i)].pc = "rot_open"]_vars
    /\ [](\A i \in 1..nLoggers :
             (/\ A[TaskOf(i)].pc = "wait"
              /\ A[TaskOf(i)].first
              /\ ~L[i].cancelled)
             => LET name == L[i].filePrefix
                               \o <<"_", DateTab[A[TaskOf(i)].woke + 1], ".log">>
                IN  /\ L[i].currentFile # NoFile
                    /\ name \in DOMAIN dir =>
                          L[i].currentFile = dir[name].ino)

\* after the first midnight the rotation has bound the logger to the file
\* of the new day, next to the file of the day of construction
C23_Witness ==
    \E i \in Issued :
       /\ today = 1
       /\ A[TaskOf(i)].pc = "wait" /\ ~A[TaskOf(i)].first
       /\ <<"a", "_", "2023-07-04", ".log">> \in DOMAIN dir
       /\ <<"a", "_", "2023-07-05", ".log">> \in DOMAIN dir
       /\ L[i].currentFile = dir[<<"a", "_", "2023-07-05", ".log">>].ino
       /\ L[i].currentFile # dir[<<"a", "_", "2023-07-04", ".log">>].ino

\* C24: no step takes anything out of a file: the content of every file
\* only grows at its end.  A step that opens a name that is in the
\* directory, in a construction or in a rotation, binds the instance to
\* the file the name denoted before and leaves the directory and every
\* file as they were; in particular a rotation on the day of the file the
\* instance had open before leaves the same file name active, with what
\* was written to it before.
C24_AppendNotTruncate ==
    [][/\ \A k \in DOMAIN inodes :
             /\ k \in DOMAIN inodes'
             /\ IsPrefix(inodes[k].content, inodes'[k].content)
       /\ \A i \in Insts :
             (L'[i].currentFile # L[i].currentFile
                /\ L'[i].currentFile # NoFile) =>
                LET name == L'[i].filePrefix
                               \o <<"_", DateTab[today + 1], ".log">>
                IN  name \in DOMAIN dir =>
                       /\ L'[i].currentFile = dir[name].ino
                       /\ dir' = dir
                       /\ inodes' = inodes]_vars

\* on the day after construction the task has rotated twice: the file of
\* the day, bound again by the second rotation, still holds the deletion
\* entry the task wrote to it in its first cycle; and the file that was
\* there at construction still starts with the entry of the earlier run
C24_Witness ==
    \E i \in Issued :
       /\ today = 1
       /\ A[TaskOf(i)].pc = "cl_list"
       /\ ~A[TaskOf(i)].first
       /\ <<"a", "_", "2023-07-05", ".log">> \in DOMAIN dir
       /\ L[i].currentFile = dir[<<"a", "_", "2023-07-05", ".log">>].ino
       /\ \E k \in DOMAIN inodes[L[i].currentFile].content :
             inodes[L[i].currentFile].content[k].who = TaskOf(i)
       /\ <<"a", "_", "2023-07-04", ".log">> \in DOMAIN dir
       /\ LET c == inodes[dir[<<"a", "_", "2023-07-04", ".log">>].ino].content
          IN  Len(c) >= 2 /\ c[1] = Entry("INFO", 0, <<>>)

MaxStamp == 2
UtilOps == 3

\* the readings of time.Now() in nanoseconds that the calls can get
Stamps == 1..MaxStamp

\* the path every call writes to
Target == <<"target">>

\* prefix + time.Now().Format("20060102_150405.000000000") + suffix
GenerateFileName(prefix, suffix, now) == <<prefix, now, suffix>>

\* tempFile := "/tmp/" + GenerateFileName("", ".txt")
TempFile(now) == <<"/tmp/">> \o GenerateFileName("", ".txt", now)

\* the data goroutine p writes: p bytes of its own
Data(p) == [k \in 1..p |-> p]

\* file.Write(data) on a descriptor at offset 0
WriteAt0(old, data) == data \o SubSeq(old, Len(data) + 1, Len(old))

\* a ThreadSafeWriteFile call returns; err says that this call or an
\* earlier one of the goroutine returned an error
TSReturned(p, failed) ==
    [A[p] EXCEPT !.pc = "idle", !.fd = 0, !.err = @ \/ failed]

\* the target exists, left by an earlier run
InitUtil ==
    /\ today = 0
    /\ dir = (Target :> [ino |-> 1, isDir |-> FALSE])
    /\ inodes = << [mtime |-> -1, content |-> <<0, 0, 0>>] >>
    /\ stdout = <<>>
    /\ faultsLeft = MaxFaults
    /\ globalLogger = 0
    /\ globalMu = 0
    /\ nLoggers = 0
    /\ L = [i \in Insts |-> NoInstance]
    /\ A = [a \in Actors |-> IF a \in Procs THEN NoActor("idle")
                                            ELSE NoActor("none")]
    /\ opsLeft = UtilOps
    /\ daysLeft = 0
    /\ panicked = FALSE

\* ThreadSafeWriteFile up to WriteFile's os.OpenFile: the name of the
\* temporary file is made from the time of the call (os.MkdirAll of /tmp
\* finds the directory)
TSBegin(p, now) ==
    /\ ~panicked
    /\ CanInvoke(p)
    /\ opsLeft' = opsLeft - 1
    /\ A' = [A EXCEPT ![p] = [@ EXCEPT !.pc = "ts_open", !.op = "ts",
                                       !.tmp = TempFile(now), !.fd = 0]]
    /\ UNCHANGED <<today, daysLeft, dir, inodes, stdout, faultsLeft,
                   globalLogger, globalMu, nLoggers, L, panicked>>

\* os.OpenFile(tempFile, O_WRONLY|O_CREATE|O_TRUNC, 0644)
TSOpen(p) ==
    /\ ~panicked
    /\ A[p].pc = "ts_open"
    /\ LET name == A[p].tmp IN
       \/ /\ IF name \in DOMAIN dir
             THEN /\ dir' = dir
                  /\ inodes' = [inodes EXCEPT ![dir[name].ino] =
                                   [mtime |-> today, content |-> <<>>]]
             ELSE /\ dir' = dir @@ (name :> [ino |-> Len(inodes) + 1,
                                              isDir |-> FALSE])
                  /\ inodes' = Append(inodes, [mtime |-> today,
                                               content |-> <<>>])
          /\ A' = [A EXCEPT ![p] = [@ EXCEPT !.pc = "ts_write",
                                             !.fd = dir'[name].ino]]
          /\ faultsLeft' = faultsLeft
       \/ /\ CanFail
          /\ faultsLeft' = faultsLeft - 1
          /\ A' = [A EXCEPT ![p] = TSReturned(p, TRUE)]
          /\ UNCHANGED <<dir, inodes>>
    /\ UNCHANGED <<today, daysLeft, stdout, globalLogger, globalMu, nLoggers,
                   L, opsLeft, panicked>>

\* file.Write(data) and the deferred file.Close(); no owner is configured
TSWrite(p) ==
    /\ ~panicked
    /\ A[p].pc = "ts_write"
    /\ \/ /\ inodes' = [inodes EXCEPT ![A[p].fd] =
                           [mtime |-> today,
                            content |-> WriteAt0(@.content, Data(p))]]
          /\ A' = [A EXCEPT ![p] = [@ EXCEPT !.pc = "ts_rename", !.fd = 0]]
          /\ faultsLeft' = faultsLeft
       \/ /\ CanFail
          /\ faultsLeft' = faultsLeft - 1
          /\ A' = [A EXCEPT ![p] = TSReturned(p, TRUE)]
          /\ inodes' = inodes
    /\ UNCHANGED <<today, daysLeft, dir, stdout, globalLogger, globalMu,
                   nLoggers, L, opsLeft, panicked>>

\* mutant: the error of os.Rename is dropped
TSRenameForgiving(p) ==
    /\ ~panicked
    /\ A[p].pc = "ts_rename"
    /\ dir' = IF A[p].tmp \in DOMAIN dir
              THEN [n \in (DOMAIN dir \ {A[p].tmp}) \cup {Target} |->
                       IF n = Target THEN dir[A[p].tmp] ELSE dir[n]]
              ELSE dir
    /\ A' = [A EXCEPT ![p] = TSReturned(p, FALSE)]
    /\ UNCHANGED <<today, daysLeft, inodes, stdout, faultsLeft, globalLogger,
                   globalMu, nLoggers, L, opsLeft, panicked>>

\* os.Rename(tempFile, path): the target name is bound to the temporary
\* file in one step; it fails when the temporary name is gone
TSRename(p) ==
    /\ ~panicked
    /\ A[p].pc = "ts_rename"
    /\ \/ /\ A[p].tmp \in DOMAIN dir
          /\ dir' = [n \in (DOMAIN dir \ {A[p].tmp}) \cup {Target} |->
                       IF n = Target THEN dir[A[p].tmp] ELSE dir[n]]
          /\ A' = [A EXCEPT ![p] = TSReturned(p, FALSE)]
          /\ faultsLeft' = faultsLeft
       \/ /\ A[p].tmp \notin DOMAIN dir \/ CanFail
          /\ faultsLeft' = IF A[p].tmp \in DOMAIN dir THEN faultsLeft - 1
                           ELSE faultsLeft
          /\ A' = [A EXCEPT ![p] = TSReturned(p, TRUE)]
          /\ dir' = dir
    /\ UNCHANGED <<today, daysLeft, inodes, stdout, globalLogger, globalMu,
                   nLoggers, L, opsLeft, panicked>>

NextUtil ==
    \/ \E p \in Procs, now \in Stamps : TSBegin(p, now)
    \/ \E p \in Procs : TSOpen(p)
    \/ \E p \in Procs : TSWrite(p)
    \/ \E p \in Procs : TSRename(p)

SpecUtil == InitUtil /\ [][NextUtil]_vars

\* C26: when every ThreadSafeWriteFile call made so far on the target has
\* returned and none has returned an error, the target exists and holds
\* exactly the data of one of the goroutines that called: not the old
\* content, not nothing, not a mix.
C26_ThreadSafeWrite ==
    ((\A p \in Procs : A[p].pc = "idle" /\ ~A[p].err)
        /\ (\E p \in Procs : A[p].op = "ts"))
    => /\ Target \in DOMAIN dir
       /\ \E q \in Procs :
             /\ A[q].op = "ts"
             /\ inodes[dir[Target].ino].content = Data(q)

\* two goroutines have called with the same reading of the clock, hence
\* the same temporary name, and both calls have returned without error;
\* the target holds the data of the second goroutine
C26_Witness ==
    /\ \A p \in Procs : A[p].pc = "idle" /\ ~A[p].err /\ A[p].op = "ts"
    /\ A[1].tmp = A[2].tmp
    /\ Target \in DOMAIN dir
    /\ inodes[dir[Target].ino].content = Data(2)


\* C27: a severity call evaluates the level filter under the instance lock,
\* in the critical section of its write: every step in which a call writes
\* its entry finds the severity of the entry at or above the threshold of
\* the instance at that moment, the one set by the last SetLevel that has
\* returned.
C27_FilterUnderLock ==
    [][\A p \in Procs :
          SevWrite(p) => ~Filtered(L[A[p].cur].level, A[p].sev)]_vars


\* C28: every write to the active sink, the deletion entries of the
\* retention cleaner included, and every step of a rotation or a cleanup is
\* performed under the instance lock: no such step is taken by an actor
\* while another actor holds the lock of the instance.
C28_AllUnderLock ==
    [][\A a \in Actors :
          (\/ a \in Procs /\ (SevWrite(a) \/ GSevWrite(a))
           \/ CleanupList(a) \/ CleanupSort(a) \/ CleanupDel(a)
           \/ \E i \in Insts : a = TaskOf(i) /\ (RotClose(i) \/ RotOpen(i)))
          => L[A[a].cur].mu \in {0, a}]_vars


\* C29: cancellation is authoritative in the background task: the task
\* leaves its wait for a rotate-then-cleanup cycle only when the instance
\* has not been cancelled, also when a tick of the timer is pending.
C29_CancelFirst ==
    [][\A i \in Insts : TaskTick(i) => ~L[i].cancelled]_vars


\* C30: once Close() has returned, the instance has no open file handle
\* in any later state: no step of any task opens a handle for an instance
\* that has been closed, a rotation that was already triggered included.
C30_ClosedStaysClosed ==
    /\ [](\A i \in Insts :
             L[i].cancelled => L[i].currentFile = NoFile /\ L[i].nOpen = 0)
    /\ [][\A i \in Insts :
             L[i].cancelled => L'[i].nOpen <= L[i].nOpen]_vars


\* the positions of a background task inside rotateAndCleanup
InCycle == {"rot_close", "rot_open", "cl_list", "cl_sort", "cl_del"}
InCleanup == {"cl_list", "cl_sort", "cl_del"}

\* C31: a background task leaves its wait for the rotation only; it enters
\* the cleanup from the rotation only, and does so whether the rotation
\* opened the file or failed; when the cleanup is over, with or without an
\* error, the task is back in its wait; no step of the cycle ends the task
\* or the process, and the task ends only from its wait, when the instance
\* has been cancelled.
C31_CycleOrder ==
    [][\A i \in Insts :
          LET a == TaskOf(i) IN
          /\ (A[a].pc = "wait" /\ A'[a].pc \notin {"wait", "done"}) =>
                A'[a].pc = "rot_close"
          /\ (A[a].pc # "cl_list" /\ A'[a].pc = "cl_list") =>
                A[a].pc = "rot_open"
          /\ (A[a].pc = "rot_open" /\ A'[a].pc # "rot_open") =>
                A'[a].pc = "cl_list"
          /\ (A[a].pc \in InCleanup /\ A'[a].pc \notin InCleanup) =>
                A'[a].pc = "wait"
          /\ (A[a].pc # "done" /\ A'[a].pc = "done") =>
                A[a].pc = "wait" /\ L[i].cancelled
          /\ (RotClose(i) \/ RotOpen(i) \/ CleanupList(a) \/ CleanupSort(a)
                 \/ CleanupDel(a)) => ~panicked']_vars


\* A log directory in which the file named for the day of the start was
\* last modified before the cutoff (it was restored with its old time
\* stamp), next to an older and a newer log file of earlier days.  Callers
\* construct a file logger, log to it and close it; no midnight passes.
StaleOps == 4

TodayFile == <<"a", "_", "2023-07-04", ".log">>

InitStale ==
    /\ today = 0
    /\ dir = (<<"a", "_", "2023-07-01", ".log">> :>
                  [ino |-> 1, isDir |-> FALSE]) @@
             (TodayFile :> [ino |-> 2, isDir |-> FALSE]) @@
             (<<"a", "_", "2023-07-02", ".log">> :>
                  [ino |-> 3, isDir |-> FALSE])
    /\ inodes = << [mtime |-> -4, content |-> <<>>],
                   [mtime |-> -3, content |-> <<Entry("INFO", 0, <<>>)>>],
                   [mtime |-> -2, content |-> <<>>] >>
    /\ stdout = <<>>
    /\ faultsLeft = 0
    /\ globalLogger = 0
    /\ globalMu = 0
    /\ nLoggers = 0
    /\ L = [i \in Insts |-> NoInstance]
    /\ A = [a \in Actors |-> IF a \in Procs THEN NoActor("idle")
                                            ELSE NoActor("none")]
    /\ opsLeft = StaleOps
    /\ daysLeft = 0
    /\ panicked = FALSE

NextStale ==
    \/ \E p \in Procs, cfg \in FileConfigs : InitGlobalLogger(p, cfg)
    \/ \E p \in Procs, s \in ProducerLevels :
          \E i \in Issued : SevBegin(p, i, s)
    \/ \E p \in Procs : SevWrite(p)
    \/ \E p \in Procs : \E i \in Issued : Close(p, i)
    \/ \E a \in Actors : CleanupList(a)
    \/ \E a \in Actors : CleanupSort(a)
    \/ \E a \in Actors : CleanupDel(a)
    \/ \E i \in Insts : TaskCancelled(i)

SpecStale == InitStale /\ [][NextStale]_vars

\* C32: in the deletions of one run of cleanupOldLogs the modification
\* times are non-decreasing: a file that the run deletes was not modified
\* before the file the run deleted last.
C32_OldestFirst ==
    [][\A a \in Actors :
          \A n \in DOMAIN dir \ DOMAIN dir' :
             (A[a].pc = "cl_del" /\ Head(A[a].old) = n /\ CleanupDel(a)) =>
                \/ A[a].last = NoTime
                \/ A[a].last <= inodes[dir[n].ino].mtime]_vars


\* C33: a failure to stat or to delete one candidate does not abort the
\* run of cleanupOldLogs.  A directory read that goes on to the deletions
\* has listed every expired candidate but the one whose Info() failed; the
\* sort goes on to the deletion loop with the same names and does not
\* panic; a deletion that fails leaves the directory as it was, and the
\* loop goes on with the rest of the list; after the last name the run is
\* over without an error (InitGlobalLogger returns the instance, the
\* background task is back in its wait).
C33_FailureIsLocal ==
    [][\A a \in Actors :
          /\ \A i \in Insts :
                (/\ A[a].pc = "cl_list" /\ A[a].cur = i
                 /\ CleanupList(a)
                 /\ A'[a].pc \in InCleanup) =>
                    /\ Range(A'[a].old) \subseteq OldFiles(L[i], {})
                    /\ Cardinality(OldFiles(L[i], {}) \ Range(A'[a].old))
                          <= faultsLeft - faultsLeft'
          /\ (A[a].pc = "cl_sort" /\ CleanupSort(a)) =>
                /\ ~panicked'
                /\ A'[a].pc = "cl_del"
                /\ Range(A'[a].old) = Range(A[a].old)
          /\ (A[a].pc = "cl_del" /\ CleanupDel(a)) =>
                /\ Head(A[a].old) \in DOMAIN dir' => dir' = dir
                /\ IF Tail(A[a].old) # <<>>
                   THEN A'[a].pc = "cl_del" /\ A'[a].old = Tail(A[a].old)
                   ELSE IF a \in Procs
                        THEN /\ A'[a].pc = "idle" /\ ~A'[a].err
                             /\ A'[a].ret = A[a].cur
                        ELSE A'[a].pc = "wait"]_vars


\* C34: a run of cleanupOldLogs whose directory read fails deletes nothing
\* and writes nothing.  In InitGlobalLogger the call then returns an error
\* and no instance, and the registry stays empty; in a cycle of the
\* background task the task is back in its wait, neither ended nor
\* panicked.  InitGlobalLogger returns an error after the instance was
\* constructed in no other step of the cleanup.
C34_ListingFailure ==
    [][\A a \in Actors :
          /\ \A i \in Insts :
                (/\ A[a].pc = "cl_list" /\ A[a].cur = i
                 /\ CleanupList(a) /\ ReadDirFails(a)) =>
                    /\ dir' = dir /\ inodes' = inodes /\ stdout' = stdout
                    /\ ~panicked'
                    /\ IF a \in Procs
                       THEN /\ A'[a].pc = "idle" /\ A'[a].op = "init"
                            /\ A'[a].err /\ A'[a].ret = 0
                            /\ globalLogger' = 0
                            /\ ~L'[i].issued
                       ELSE /\ A'[a].pc = "wait"
                            /\ L'[i] = L[i]
          /\ (/\ a \in Procs /\ A[a].pc \in InCleanup
              /\ A'[a].pc = "idle" /\ A'[a].err) =>
                 A[a].pc = "cl_list" /\ ReadDirFails(a)]_vars

\* InitGlobalLogger has returned an error after it had opened the log
\* file: the directory read of its cleanup failed, and the directory is as
\* it was at the start but for the file of the day
C34_Witness ==
    /\ nLoggers = 1 /\ globalLogger = 0
    /\ L[1].outputType = "file" /\ L[1].cancelled /\ ~L[1].openFailed
    /\ \E p \in Procs :
          A[p].pc = "idle" /\ A[p].op = "init" /\ A[p].err /\ A[p].ret = 0
    /\ faultsLeft = MaxFaults - 1
    /\ <<"a", "_", "2023-07-01", ".log">> \in DOMAIN dir
    /\ <<"a", "_", "2023-07-02", ".log">> \in DOMAIN dir


\* Callers that construct a file logger with the threshold at Info or at
\* Error and close it, while midnights pass and the background task
\* rotates and cleans up; the operating system does not fail (a removal
\* fails when another cleanup has removed the file).
RetainOps == 2

RetainConfigs ==
    {Config(lv, "file", "d", <<"a">>, 1) : lv \in {InfoLevel, ErrorLevel}}

InitRetain == InitWith(RetainOps, MaxDay, 0)

NextRetain ==
    \/ \E p \in Procs, cfg \in RetainConfigs : InitGlobalLogger(p, cfg)
    \/ \E p \in Procs : \E i \in Issued : Close(p, i)
    \/ \E a \in Actors : CleanupList(a)
    \/ \E a \in Actors : CleanupSort(a)
    \/ \E a \in Actors : CleanupDel(a)
    \/ \E i \in Insts : TaskTick(i)
    \/ \E i \in Insts : TaskCancelled(i)
    \/ \E i \in Insts : RotClose(i)
    \/ \E i \in Insts : RotOpen(i)
    \/ Midnight

SpecRetain == InitRetain /\ [][NextRetain]_vars

\* the logger of the instance can take a write: it is bound to standard
\* output or to a file that is open
Usable(lg) == lg.kind = "stdout" \/ (lg.kind = "file" /\ lg.open)

\* C35: a step of the deletion loop that removes a file appends exactly
\* one entry, tagged INFO and naming the removed path, to the sink the
\* instance is bound to, whatever the threshold of the instance is, and
\* writes nothing else; it writes nothing at all when the logger of the
\* instance is not usable.  A step in which the removal fails writes
\* nothing.
C35_DeletionEntry ==
    [][\A a \in Actors : \A i \in Insts :
          (A[a].pc = "cl_del" /\ A[a].cur = i /\ CleanupDel(a)) =>
             IF Head(A[a].old) \in DOMAIN dir \ DOMAIN dir'
             THEN IF Usable(L[i].logger)
                  THEN /\ stdout' = stdout
                       /\ inodes' =
                             [inodes EXCEPT ![L[i].logger.ino] =
                                [mtime |-> today,
                                 content |->
                                    Append(@.content,
                                           Entry("INFO", a,
                                                 Head(A[a].old)))]]
                  ELSE NoOutput
             ELSE NoOutput]_vars

\* after a midnight the background task of a logger whose threshold is
\* Error has deleted the file that expired that day, and the entry for it
\* is the last one in the file of the new day
C35_Witness ==
    /\ today = 1
    /\ nLoggers >= 1 /\ L[1].level = ErrorLevel
    /\ L[1].currentFile # NoFile
    /\ <<"a", "_", "2023-07-03", ".log">> \notin DOMAIN dir
    /\ LET c == inodes[L[1].currentFile].content IN
          /\ c # <<>>
          /\ c[Len(c)] = Entry("INFO", TaskOf(1),
                               <<"a", "_", "2023-07-03", ".log">>)


\* Callers that use every operation of the package, the registry functions
\* and the methods of the instances they were given, while midnights pass
\* and the background tasks rotate and clean up; the operating system does
\* not fail.
LockOps == 2

InitLocks == InitWith(LockOps, MaxDay, 0)

NextLocks ==
    \/ \E p \in Procs, cfg \in ValidConfigs : InitGlobalLogger(p, cfg)
    \/ \E p \in Procs : GetLogger(p)
    \/ \E p \in Procs : ResetBegin(p)
    \/ \E p \in Procs : ResetClose(p)
    \/ \E p \in Procs, s \in ProducerLevels :
          \E i \in Issued : SevBegin(p, i, s)
    \/ \E p \in Procs : SevWrite(p)
    \/ \E p \in Procs, t \in ProducerLevels :
          \E i \in Issued : SetLevel(p, i, t)
    \/ \E p \in Procs : \E i \in Issued : Close(p, i)
    \/ \E p \in Procs, s \in ProducerLevels : GSevBegin(p, s)
    \/ \E p \in Procs : GSevWrite(p)
    \/ \E p \in Procs, t \in ProducerLevels : GSetBegin(p, t)
    \/ \E p \in Procs : GSetLevel(p)
    \/ \E a \in Actors : CleanupList(a)
    \/ \E a \in Actors : CleanupSort(a)
    \/ \E a \in Actors : CleanupDel(a)
    \/ \E i \in Insts : TaskTick(i)
    \/ \E i \in Insts : TaskCancelled(i)
    \/ \E i \in Insts : RotClose(i)
    \/ \E i \in Insts : RotOpen(i)
    \/ Midnight

SpecLocks == InitLocks /\ [][NextLocks]_vars


\* goroutine a is inside an operation
MidOp(a) == A[a].pc \notin {"idle", "none", "wait", "done"}

\* the next step of the operation goroutine a is in
StepOf(a) ==
    \/ a \in Procs /\ (SevWrite(a) \/ GSevWrite(a) \/ GSetLevel(a)
                        \/ ResetClose(a))
    \/ CleanupList(a) \/ CleanupSort(a) \/ CleanupDel(a)
    \/ \E i \in Insts : a = TaskOf(i) /\ (RotClose(i) \/ RotOpen(i))

\* goroutine a is at l.mu.Lock() of instance i
WaitsMu(a, i) ==
    A[a].cur = i /\ A[a].pc \in {"write", "gwrite", "gset", "reset_close",
                                  "rot_close"}

\* the places where a goroutine holds the registry lock: the whole of
\* InitGlobalLogger, ResetGlobalLogger and the global functions
RegistryHeldAt ==
    {"cl_list", "cl_sort", "cl_del", "reset_close", "gwrite", "gset"}

\* C36: no interleaving deadlocks.  The registry lock is held only by a
\* caller inside InitGlobalLogger, ResetGlobalLogger or a global function,
\* and the lock of an instance is held across steps only by the background
\* task inside its rotation, which asks for no other lock: a holder of an
\* instance lock never holds or asks for the registry lock.  No goroutine
\* waits for a lock it holds itself.  And every goroutine inside an
\* operation can take its next step, or waits for an instance lock whose
\* holder can take its next step, which releases the lock.
C36_NoDeadlock ==
    ~panicked =>
       /\ globalMu # 0 =>
             globalMu \in Procs /\ A[globalMu].pc \in RegistryHeldAt
       /\ \A i \in Insts :
             L[i].mu # 0 =>
                /\ L[i].mu = TaskOf(i)
                /\ A[L[i].mu].pc = "rot_open"
                /\ globalMu # L[i].mu
       /\ \A a \in Actors, i \in Insts : WaitsMu(a, i) => L[i].mu # a
       /\ \A a \in Actors :
             MidOp(a) =>
                \/ ENABLED StepOf(a)
                \/ \E i \in Insts :
                      /\ WaitsMu(a, i)
                      /\ L[i].mu \in Actors \ {a}
                      /\ ENABLED StepOf(L[i].mu)

\* a global severity call holds the registry lock and waits for the lock
\* of the singleton, which the background task holds inside a rotation
C36_Witness ==
    \E p \in Procs : \E i \in Insts :
       /\ A[p].pc = "gwrite" /\ A[p].cur = i /\ globalMu = p
       /\ L[i].mu = TaskOf(i)
       /\ A[TaskOf(i)].pc = "rot_open"


\* C37: cleanupOldLogs does not panic when a file it has listed is gone
\* before the sort or the deletion: the sort then goes on to the deletion
\* loop, and the deletion of the missing file fails like any other and
\* the loop goes on with the rest.
C37_VanishedFile ==
    [][\A a \in Actors :
          /\ (CleanupList(a) \/ CleanupSort(a) \/ CleanupDel(a)) =>
                ~panicked'
          /\ (/\ A[a].pc = "cl_sort" /\ CleanupSort(a)
              /\ \E k \in 1..Len(A[a].old) : A[a].old[k] \notin DOMAIN dir)
                => A'[a].pc = "cl_del"
          /\ (/\ A[a].pc = "cl_del" /\ CleanupDel(a)
              /\ Head(A[a].old) \notin DOMAIN dir)
                => /\ dir' = dir /\ NoOutput
                   /\ Tail(A[a].old) # <<>> =>
                         A'[a].pc = "cl_del" /\ A'[a].old = Tail(A[a].old)]_vars


\* C38: no step of a cleanup removes the file that the cleaning instance
\* has open as its active sink.
C38_ActiveFileKept ==
    [][\A a \in Actors : \A i \in Insts :
          (A[a].pc = "cl_del" /\ A[a].cur = i /\ CleanupDel(a)) =>
             \A n \in DOMAIN dir \ DOMAIN dir' :
                L[i].currentFile = NoFile \/ dir[n].ino # L[i].currentFile]_vars


\* C39: an instance that InitGlobalLogger has given up (it cancelled the
\* context and returned an error, so the instance was never published) has
\* no open file handle.
C39_NoLeak ==
    \A i \in Insts :
       (L[i].cancelled /\ ~L[i].issued) =>
          L[i].currentFile = NoFile /\ L[i].nOpen = 0


\* Producers that log to a file logger which is never closed while two
\* midnights pass; the only operating-system call that fails is the
\* os.OpenFile of a rotation.
ReopenOps == 2
ReopenDays == MaxDay + 1

InitReopen ==
    /\ today = 0
    /\ dir = [n \in {<<"a", "_", "2023-07-01", ".log">>,
                     <<"a", "_", "2023-07-02", ".log">>} |-> InitDir[n]]
    /\ inodes = SubSeq(InitInodes, 1, 2)
    /\ stdout = <<>>
    /\ faultsLeft = MaxFaults
    /\ globalLogger = 0
    /\ globalMu = 0
    /\ nLoggers = 0
    /\ L = [i \in Insts |-> NoInstance]
    /\ A = [a \in Actors |-> IF a \in Procs THEN NoActor("idle")
                                            ELSE NoActor("none")]
    /\ opsLeft = ReopenOps
    /\ daysLeft = ReopenDays
    /\ panicked = FALSE

NextReopen ==
    \/ \E p \in Procs, cfg \in FileConfigs :
          InitGlobalLogger(p, cfg) /\ faultsLeft' = faultsLeft
    \/ \E p \in Procs, s \in ProducerLevels :
          \E i \in Issued : SevBegin(p, i, s)
    \/ \E p \in Procs : SevWrite(p)
    \/ \E a \in Actors : CleanupList(a) /\ faultsLeft' = faultsLeft
    \/ \E a \in Actors : CleanupSort(a) /\ faultsLeft' = faultsLeft
    \/ \E a \in Actors : CleanupDel(a) /\ faultsLeft' = faultsLeft
    \/ \E i \in Insts : TaskTick(i)
    \/ \E i \in Insts : TickFirst(i)
    \/ \E i \in Insts : RotClose(i)
    \/ \E i \in Insts : RotOpen(i)
    \/ Midnight

SpecReopen == InitReopen /\ [][NextReopen]_vars


\* C40: a rotation whose os.OpenFile fails leaves the instance without an
\* open handle (the old one is closed, the log writer is bound to it);
\* a severity call made while the instance is in that condition returns
\* normally and writes nothing, neither to a file nor to stdout; the next
\* rotation whose open succeeds binds the instance to the file named after
\* the day of that rotation, and a severity call made from then on appends
\* its entry to the file the instance is bound to.
C40_FailedRotation ==
    [][\A i \in Insts :
         /\ (RotOpen(i) /\ L'[i].openFailed) =>
                /\ L'[i].currentFile = NoFile
                /\ L'[i].nOpen = 0
                /\ ~L'[i].logger.open
                /\ L'[i].mu = 0
                /\ dir' = dir /\ inodes' = inodes
         /\ \A p \in Procs :
              (A[p].pc = "write" /\ A[p].cur = i /\ L[i].openFailed
                  /\ SevWrite(p)) =>
                 /\ NoOutput
                 /\ ~panicked'
                 /\ A'[p].pc = "idle" /\ ~A'[p].err
         /\ (L[i].openFailed /\ RotOpen(i) /\ ~L'[i].openFailed) =>
                LET name == FileName(L[i].filePrefix, today) IN
                /\ name \in DOMAIN dir'
                /\ L'[i].currentFile = dir'[name].ino
                /\ L'[i].logger = FileLogger(dir'[name].ino)
                /\ L'[i].nOpen = 1
         /\ \A p \in Procs :
              (A[p].pc = "write" /\ A[p].cur = i /\ ~L[i].openFailed
                  /\ L[i].currentFile # NoFile /\ SevWrite(p)) =>
                 inodes'[L[i].currentFile].content =
                    Append(inodes[L[i].currentFile].content,
                           Entry(LevelTag(A[p].sev), p, <<>>))
       ]_vars

\* the rotation of the first midnight failed to open its file, so that no
\* file of that day exists; the rotation of the second midnight opened the
\* file of the second day and a caller's entry has been written to it
C40_Witness ==
    /\ today = 2
    /\ faultsLeft < MaxFaults
    /\ L[1].issued /\ ~L[1].openFailed
    /\ FileName(L[1].filePrefix, 1) \notin DOMAIN dir
    /\ FileName(L[1].filePrefix, 2) \in DOMAIN dir
    /\ L[1].currentFile = dir[FileName(L[1].filePrefix, 2)].ino
    /\ \E p \in Procs, k \in 1..Len(inodes[L[1].currentFile].content) :
          inodes[L[1].currentFile].content[k] = Entry("INFO", p, <<>>)

====
